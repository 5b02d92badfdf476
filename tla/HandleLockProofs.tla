-------------------------- MODULE HandleLockProofs --------------------------
(***************************************************************************)
(* Proofs about HandleLock: the types, the three exclusive lock states, that *)
(* the locks implement RWLock, that none is lost but by an unlock, and the  *)
(* links of the tree, with what a recursive query says of it.               *)
(*                                                                         *)
(* The tree may be of any depth.  Where a proof has to go down it, it takes *)
(* the least number of generations for which something fails instead, one   *)
(* less is still right, and one step down from there gives the result.      *)
(***************************************************************************)
EXTENDS HandleLock, ListsProofs

USE HandleLockAssumption

-----------------------------------------------------------------------------
(* What the helpers return *)

\* Only Handles that grant the lock are locked.
LEMMA ToLockGrants ==
    ASSUME NEW t, NEW h, NEW recurs, NEW rdonly, NEW x \in ToLock(t, h, recurs, rdonly)
    PROVE  x \in live /\ Grants(t, x, rdonly)
  BY DEF ToLock, BeforeRefusal

\* Only Handles the thread holds are unlocked.
LEMMA ToUnlockHolds ==
    ASSUME NEW t, NEW h, NEW recurs, NEW x \in ToUnlock(t, h, recurs)
    PROVE  x \in live /\ Holds(t, x)
  BY DEF ToUnlock, BeforeRefusal

\* The array of readers stays an array of threads without repetitions when a
\* thread is added to it.
LEMMA WithReaderOk ==
    ASSUME HandleTypeOK, LockStates, NEW t \in Thread, NEW x \in Handle, Grants(t, x, TRUE)
    PROVE  /\ WithReader(t, x) \in Seq(Thread)
           /\ \A i, j \in DOMAIN WithReader(t, x) :
                 WithReader(t, x)[i] = WithReader(t, x)[j] => i = j
           /\ ToSet(WithReader(t, x)) = ToSet(readers[x]) \cup {t}
<1> DEFINE r == readers[x]
<1>1. r \in Seq(Thread) /\ (\A i, j \in DOMAIN r : r[i] = r[j] => i = j)
  BY DEF HandleTypeOK, LockStates
<1>2. CASE writer[x] = t
  <2>1. r = <<>>
    BY <1>2 DEF LockStates
  <2>2. WithReader(t, x) = <<t>>
    BY <1>2 DEF WithReader
  <2> QED
    BY <2>1, <2>2 DEF ToSet
<1>3. CASE writer[x] # t /\ t \in ToSet(r)
  BY <1>1, <1>3 DEF WithReader, ToSet
<1>4. CASE writer[x] # t /\ t \notin ToSet(r)
  <2>1. WithReader(t, x) = Append(r, t)
    BY <1>4 DEF WithReader
  <2>2. \A i \in DOMAIN r : r[i] # t
    BY <1>4 DEF ToSet
  <2>3. Len(Append(r, t)) = Len(r) + 1 /\ Append(r, t) \in Seq(Thread)
    BY <1>1
  <2>4. \A i \in 1..(Len(r) + 1) :
            Append(r, t)[i] = IF i = Len(r) + 1 THEN t ELSE r[i]
    BY <1>1
  <2>5. ToSet(Append(r, t)) = ToSet(r) \cup {t}
    BY <1>1, <2>3, <2>4 DEF ToSet
  <2>6. \A i, j \in DOMAIN Append(r, t) : Append(r, t)[i] = Append(r, t)[j] => i = j
    BY <1>1, <2>2, <2>3, <2>4
  <2> QED
    BY <2>1, <2>3, <2>5, <2>6
<1> QED
  BY <1>2, <1>3, <1>4

\* Shuffling the entries after position "at" down one slot removes the entry
\* at that position and no other.
LEMMA CloseGapOk ==
    ASSUME NEW S, NEW r \in Seq(S), NEW at \in 1..Len(r),
           \A i, j \in DOMAIN r : r[i] = r[j] => i = j
    PROVE  /\ CloseGap(r, at) \in Seq(S)
           /\ \A i, j \in DOMAIN CloseGap(r, at) :
                 CloseGap(r, at)[i] = CloseGap(r, at)[j] => i = j
           /\ ToSet(CloseGap(r, at)) = ToSet(r) \ {r[at]}
<1> DEFINE n == Len(r)
           w == CloseGap(r, at)
<1>1. n \in Nat /\ n - 1 \in Nat /\ DOMAIN r = 1..n /\ \A i \in 1..n : r[i] \in S
  OBVIOUS
<1>2. DOMAIN w = 1..(n - 1) /\ \A i \in 1..(n - 1) : w[i] = IF i < at THEN r[i] ELSE r[i + 1]
  BY DEF CloseGap
<1>3. w \in Seq(S)
  <2>1. w \in [1..(n - 1) -> S]
    BY <1>1 DEF CloseGap
  <2> HIDE DEF w
  <2> QED
    BY <1>1, <2>1
<1> HIDE DEF n, w
<1>4. at \in 1..n
  BY DEF n
<1>5. ASSUME NEW i \in DOMAIN w, NEW j \in DOMAIN w, w[i] = w[j] PROVE i = j
  <2> DEFINE slot(k) == IF k < at THEN k ELSE k + 1
  <2>1. slot(i) \in 1..n /\ slot(j) \in 1..n /\ w[i] = r[slot(i)] /\ w[j] = r[slot(j)]
    BY <1>1, <1>2, <1>4
  <2>2. slot(i) = slot(j)
    BY <1>1, <1>5, <2>1
  <2> QED
    BY <1>1, <1>2, <1>4, <2>2
<1>6. ASSUME NEW u \in ToSet(w) PROVE u \in ToSet(r) \ {r[at]}
  <2>1. PICK i \in 1..(n - 1) : u = w[i]
    BY <1>2 DEF ToSet
  <2>2. CASE i < at
    <3>1. i \in 1..n /\ i # at /\ u = r[i]
      BY <1>1, <1>2, <1>4, <2>1, <2>2
    <3> QED
      BY <1>1, <1>4, <3>1 DEF ToSet
  <2>3. CASE ~(i < at)
    <3>1. i + 1 \in 1..n /\ i + 1 # at /\ u = r[i + 1]
      BY <1>1, <1>2, <1>4, <2>1, <2>3
    <3> QED
      BY <1>1, <1>4, <3>1 DEF ToSet
  <2> QED
    BY <2>2, <2>3
<1>7. ASSUME NEW u \in ToSet(r) \ {r[at]} PROVE u \in ToSet(w)
  <2>1. PICK i \in 1..n : u = r[i]
    BY <1>1 DEF ToSet
  <2>2. CASE i < at
    <3>1. i \in DOMAIN w /\ w[i] = u
      BY <1>1, <1>2, <1>4, <2>1, <2>2
    <3> QED
      BY <3>1 DEF ToSet
  <2>3. CASE i > at
    <3>1. i - 1 \in 1..(n - 1) /\ ~(i - 1 < at) /\ (i - 1) + 1 = i
      BY <1>1, <1>4, <2>1, <2>3
    <3>2. i - 1 \in DOMAIN w /\ w[i - 1] = u
      BY <1>2, <2>1, <3>1
    <3> QED
      BY <3>2 DEF ToSet
  <2>4. i # at
    BY <1>1, <1>4, <2>1
  <2> QED
    BY <1>4, <2>1, <2>2, <2>3, <2>4
<1> QED
  BY <1>3, <1>5, <1>6, <1>7 DEF w

\* Taking a thread out of the array of readers removes that thread and
\* nobody else, and leaves no repetitions.
LEMMA WithoutReaderOk ==
    ASSUME HandleTypeOK, LockStates, NEW t \in Thread, NEW x \in Handle, Holds(t, x)
    PROVE  /\ WithoutReader(t, x) \in Seq(Thread)
           /\ \A i, j \in DOMAIN WithoutReader(t, x) :
                 WithoutReader(t, x)[i] = WithoutReader(t, x)[j] => i = j
           /\ ToSet(WithoutReader(t, x)) = ToSet(readers[x]) \ {t}
<1>1. /\ readers[x] \in Seq(Thread)
      /\ \A i, j \in DOMAIN readers[x] : readers[x][i] = readers[x][j] => i = j
  BY DEF HandleTypeOK, LockStates
<1>2. CASE writer[x] = t
  <2>1. readers[x] = <<>>
    BY <1>2 DEF LockStates
  <2>2. WithoutReader(t, x) = readers[x]
    BY <1>2 DEF WithoutReader
  <2> QED
    BY <2>1, <2>2 DEF ToSet
<1>3. CASE writer[x] # t
  <2>1. t \in ToSet(readers[x])
    BY <1>3 DEF Holds, Status, WriteHere, ReadHere, WriteOther, Unlocked, ReadOther
  <2>2. SlotOf(t, x) \in DOMAIN readers[x] /\ readers[x][SlotOf(t, x)] = t
    BY <2>1 DEF ToSet, SlotOf
  <2>3. WithoutReader(t, x) = CloseGap(readers[x], SlotOf(t, x))
    BY <1>3 DEF WithoutReader
  <2>4. SlotOf(t, x) \in 1..Len(readers[x])
    BY <1>1, <2>2
  <2> QED
    BY <1>1, <2>2, <2>3, <2>4, CloseGapOk
<1> QED
  BY <1>2, <1>3

-----------------------------------------------------------------------------
(* The inductive invariant *)

\* LockStates is inductive once the types are known.
IInv == HandleTypeOK /\ LockStates

\* Taking a lock that is granted keeps the invariant.
LEMMA TakeLocksInv ==
    ASSUME IInv, NEW t \in Thread, NEW rdonly \in BOOLEAN, NEW S \in SUBSET live,
           \A x \in S : Grants(t, x, rdonly),
           TakeLocks(t, S, rdonly), UNCHANGED treeVars
    PROVE  IInv'
<1>1. S \subseteq Handle
  BY DEF IInv, HandleTypeOK
<1>2. \A x \in Handle :
        /\ writer'[x] = IF x \notin S THEN writer[x] ELSE IF rdonly THEN NoThread ELSE t
        /\ readers'[x] = IF x \notin S THEN readers[x]
                         ELSE IF rdonly THEN WithReader(t, x) ELSE <<>>
  BY DEF TakeLocks
<1>3. \A x \in S : rdonly =>
        /\ WithReader(t, x) \in Seq(Thread)
        /\ \A i, j \in DOMAIN WithReader(t, x) :
              WithReader(t, x)[i] = WithReader(t, x)[j] => i = j
  BY <1>1, WithReaderOk DEF IInv
<1>4. writer' \in [Handle -> Thread \cup {NoThread}]
  BY DEF TakeLocks, IInv, HandleTypeOK
<1>5. readers' \in [Handle -> Seq(Thread)]
  <2>1. <<>> \in Seq(Thread) /\ \A x \in Handle : readers[x] \in Seq(Thread)
    BY DEF IInv, HandleTypeOK
  <2>2. \A x \in Handle : readers'[x] \in Seq(Thread)
    BY <1>2, <1>3, <2>1
  <2> QED
    BY <2>2 DEF TakeLocks
<1>6. HandleTypeOK'
  BY <1>4, <1>5 DEF IInv, HandleTypeOK, treeVars
<1>7. ASSUME NEW x \in Handle
      PROVE  /\ writer'[x] # NoThread => readers'[x] = <<>>
             /\ \A i, j \in DOMAIN readers'[x] : readers'[x][i] = readers'[x][j] => i = j
             /\ x \notin live' => writer'[x] = NoThread /\ readers'[x] = <<>>
  <2>1. CASE x \notin S
    BY <1>2, <2>1 DEF IInv, LockStates, treeVars
  <2>2. CASE x \in S /\ rdonly
    BY <1>2, <1>3, <2>2 DEF treeVars
  <2>3. CASE x \in S /\ ~rdonly
    BY <1>2, <2>3 DEF treeVars
  <2> QED
    BY <2>1, <2>2, <2>3
<1> QED
  BY <1>6, <1>7 DEF IInv, LockStates

\* Releasing locks that are held keeps the invariant.
LEMMA DropLocksInv ==
    ASSUME IInv, NEW t \in Thread, NEW S \in SUBSET live,
           \A x \in S : Holds(t, x), DropLocks(t, S), UNCHANGED treeVars
    PROVE  IInv'
<1>1. S \subseteq Handle
  BY DEF IInv, HandleTypeOK
<1>2. \A x \in Handle :
        /\ writer'[x] = IF x \in S THEN NoThread ELSE writer[x]
        /\ readers'[x] = IF x \in S THEN WithoutReader(t, x) ELSE readers[x]
  BY DEF DropLocks
<1>3. \A x \in S :
        /\ WithoutReader(t, x) \in Seq(Thread)
        /\ \A i, j \in DOMAIN WithoutReader(t, x) :
              WithoutReader(t, x)[i] = WithoutReader(t, x)[j] => i = j
  BY <1>1, WithoutReaderOk DEF IInv
<1>4. writer' \in [Handle -> Thread \cup {NoThread}]
  BY DEF DropLocks, IInv, HandleTypeOK
<1>5. readers' \in [Handle -> Seq(Thread)]
  <2>1. <<>> \in Seq(Thread) /\ \A x \in Handle : readers[x] \in Seq(Thread)
    BY DEF IInv, HandleTypeOK
  <2>2. \A x \in Handle : readers'[x] \in Seq(Thread)
    BY <1>2, <1>3, <2>1
  <2> QED
    BY <2>2 DEF DropLocks
<1>6. HandleTypeOK'
  BY <1>4, <1>5 DEF IInv, HandleTypeOK, treeVars
<1>7. ASSUME NEW x \in Handle
      PROVE  /\ writer'[x] # NoThread => readers'[x] = <<>>
             /\ \A i, j \in DOMAIN readers'[x] : readers'[x][i] = readers'[x][j] => i = j
             /\ x \notin live' => writer'[x] = NoThread /\ readers'[x] = <<>>
  <2>1. CASE x \notin S
    BY <1>2, <2>1 DEF IInv, LockStates, treeVars
  <2>2. CASE x \in S
    BY <1>2, <1>3, <2>2 DEF treeVars
  <2> QED
    BY <2>1, <2>2
<1> QED
  BY <1>6, <1>7 DEF IInv, LockStates

\* Memory that becomes a Handle starts with the one lock of its maker.
LEMMA NewHandleInv ==
    ASSUME IInv, NEW t \in Thread, NEW c \in Handle, NEW p \in Handle \cup {NoHandle},
           NEW n \in TopName \cup Name, NEW rdonly \in BOOLEAN,
           NewHandle(t, c, p, n, rdonly)
    PROVE  IInv'
<1>1. live' \subseteq Handle /\ stale' \subseteq TopName
  BY DEF NewHandle, IInv, HandleTypeOK
<1>2. /\ parent' \in [Handle -> Handle \cup {NoHandle}]
      /\ name' \in [Handle -> TopName \cup Name \cup {NoName}]
      /\ docheck' \in [Handle -> BOOLEAN]
  BY DEF NewHandle, IInv, HandleTypeOK
<1>3. writer' \in [Handle -> Thread \cup {NoThread}]
  BY DEF NewHandle, IInv, HandleTypeOK
<1>4. readers' \in [Handle -> Seq(Thread)]
  <2>1. <<t>> \in Seq(Thread) /\ <<>> \in Seq(Thread)
    OBVIOUS
  <2> QED
    BY <2>1 DEF NewHandle, IInv, HandleTypeOK
<1>5. kids' \in [Handle -> Seq(Handle \cup {NoHandle})]
  <2>1. \A x \in Handle : kids[x] \in Seq(Handle \cup {NoHandle})
    BY DEF IInv, HandleTypeOK
  <2>2. ASSUME NEW x \in Handle
        PROVE  /\ Append(kids[x], c) \in Seq(Handle \cup {NoHandle})
               /\ \A m : [kids[x] EXCEPT ![m] = c] \in Seq(Handle \cup {NoHandle})
    <3> DEFINE k == kids[x]
               T == Handle \cup {NoHandle}
    <3>1. k \in Seq(T) /\ c \in T
      BY <2>1
    <3> HIDE DEF k, T
    <3>2. Append(k, c) \in Seq(T)
      BY <3>1
    <3>3. ASSUME NEW m PROVE [k EXCEPT ![m] = c] \in Seq(T)
      <4>1. Len(k) \in Nat /\ k \in [1..Len(k) -> T]
        BY <3>1
      <4>2. [k EXCEPT ![m] = c] \in [1..Len(k) -> T]
        BY <3>1, <4>1
      <4> QED
        BY <4>1, <4>2
    <3> QED
      BY <3>2, <3>3 DEF k, T
  <2> QED
    BY <2>1, <2>2 DEF NewHandle
<1>6. HandleTypeOK'
  BY <1>1, <1>2, <1>3, <1>4, <1>5 DEF HandleTypeOK
<1>7. ASSUME NEW x \in Handle
      PROVE  /\ writer'[x] # NoThread => readers'[x] = <<>>
             /\ \A i, j \in DOMAIN readers'[x] : readers'[x][i] = readers'[x][j] => i = j
             /\ x \notin live' => writer'[x] = NoThread /\ readers'[x] = <<>>
  <2>1. CASE x # c
    <3>1. writer'[x] = writer[x] /\ readers'[x] = readers[x]
      BY <2>1 DEF NewHandle, IInv, HandleTypeOK
    <3> QED
      BY <2>1, <3>1 DEF IInv, LockStates, NewHandle
  <2>2. CASE x = c
    <3>1. /\ writer'[x] = IF rdonly THEN NoThread ELSE t
          /\ readers'[x] = IF rdonly THEN <<t>> ELSE <<>>
          /\ x \in live'
      BY <2>2 DEF NewHandle, IInv, HandleTypeOK
    <3> QED
      BY <3>1
  <2> QED
    BY <2>1, <2>2
<1> QED
  BY <1>6, <1>7 DEF IInv, LockStates

\* Erasing Handles clears their locks.
LEMMA EraseHandlesInv ==
    ASSUME IInv, NEW S \in SUBSET Handle, NEW top, EraseHandles(S, top),
           stale' \subseteq TopName
    PROVE  IInv'
<1>1. /\ live' \subseteq Handle
      /\ parent' \in [Handle -> Handle \cup {NoHandle}]
      /\ name' \in [Handle -> TopName \cup Name \cup {NoName}]
      /\ docheck' \in [Handle -> BOOLEAN]
      /\ writer' \in [Handle -> Thread \cup {NoThread}]
  BY DEF EraseHandles, IInv, HandleTypeOK
<1>2. readers' \in [Handle -> Seq(Thread)]
  <2>1. <<>> \in Seq(Thread)
    OBVIOUS
  <2> QED
    BY <2>1 DEF EraseHandles, IInv, HandleTypeOK
<1>3. kids' \in [Handle -> Seq(Handle \cup {NoHandle})]
  <2>1. ASSUME NEW x \in Handle
        PROVE  [i \in DOMAIN kids[x] |-> IF kids[x][i] = top THEN NoHandle ELSE kids[x][i]]
                 \in Seq(Handle \cup {NoHandle})
    <3>1. kids[x] \in Seq(Handle \cup {NoHandle})
      BY DEF IInv, HandleTypeOK
    <3>2. /\ Len(kids[x]) \in Nat /\ DOMAIN kids[x] = 1..Len(kids[x])
          /\ \A i \in 1..Len(kids[x]) : kids[x][i] \in Handle \cup {NoHandle}
      BY <3>1
    <3> QED
      BY <3>2
  <2>2. <<>> \in Seq(Handle \cup {NoHandle})
    OBVIOUS
  <2> QED
    BY <2>1, <2>2 DEF EraseHandles
<1>4. HandleTypeOK'
  BY <1>1, <1>2, <1>3 DEF HandleTypeOK
<1>5. \A x \in Handle :
        /\ writer'[x] = IF x \in S THEN NoThread ELSE writer[x]
        /\ readers'[x] = IF x \in S THEN <<>> ELSE readers[x]
        /\ x \notin live' => x \in S \/ x \notin live
  BY DEF EraseHandles
<1>6. LockStates'
  BY <1>5 DEF IInv, LockStates
<1> QED
  BY <1>4, <1>6 DEF IInv

\* Releasing locks with datUnlock releases only locks that the thread holds.
LEMMA UnlockKind ==
    ASSUME NEW t \in Thread, NEW h, NEW recurs, DatUnlock(t, h, recurs)
    PROVE  \E S \in SUBSET live :
              /\ S \subseteq ToSet(Visited(h, recurs))
              /\ \A x \in S : Holds(t, x)
              /\ DropLocks(t, S) /\ UNCHANGED treeVars
<1>1. ToUnlock(t, h, recurs) \subseteq live
  BY DEF ToUnlock, BeforeRefusal
<1>2. ToUnlock(t, h, recurs) \subseteq ToSet(Visited(h, recurs))
  BY DEF ToUnlock, BeforeRefusal, ToSet
<1> QED
  BY <1>1, <1>2, ToUnlockHolds DEF DatUnlock

\* A Handle is only made where there is none for the object.
Fits(p, n) == p # NoHandle => p \in live /\ ChildNamed(p, n) = {}

\* A Handle that is erased is either taken out of its parent or has none.
Prunes(h, top) == h \in live /\ ((top = NoHandle /\ parent[h] = NoHandle) \/ top = h)

\* Every step is one of four: locks taken, locks released, a Handle made,
\* Handles erased; or it leaves the tree and the locks alone.
LEMMA StepKinds ==
    ASSUME IInv, NEW t \in Thread,
           \/ \E h \in Handle, recurs, rdonly \in BOOLEAN : DatLock(t, h, recurs, rdonly)
           \/ \E h \in Handle, recurs \in BOOLEAN : DatUnlock(t, h, recurs)
           \/ \E h \in Handle : DatNolock(t, h)
           \/ \E p \in Handle, n \in Name : DatFind(t, p, n)
           \/ \E p \in Handle, n \in Name : DatNew(t, p, n)
           \/ \E p \in Handle, n \in Name : DatErase(t, p, n)
           \/ \E n \in TopName, rdonly \in BOOLEAN : OpenFirst(t, n, rdonly)
           \/ \E n \in TopName, rdonly \in BOOLEAN : OpenAgain(t, n, rdonly)
           \/ \E n \in TopName, rdonly \in BOOLEAN : OpenRefused(t, n, rdonly)
           \/ \E n \in TopName : LastAnnul(t, n)
    PROVE  \/ \E S \in SUBSET live, rdonly \in BOOLEAN :
                 /\ \A x \in S : Grants(t, x, rdonly)
                 /\ TakeLocks(t, S, rdonly) /\ UNCHANGED treeVars
           \/ \E h \in Handle, recurs \in BOOLEAN : DatUnlock(t, h, recurs)
           \/ \E c \in Handle, p \in Handle \cup {NoHandle}, n \in TopName \cup Name,
                 rdonly \in BOOLEAN : Fits(p, n) /\ NewHandle(t, c, p, n, rdonly)
           \/ \E h \in Handle, top \in Handle \cup {NoHandle} :
                 /\ Prunes(h, top)
                 /\ EraseHandles(Below(h), top) /\ stale' \subseteq TopName
           \/ UNCHANGED <<live, parent, kids, name, writer, readers>> /\ HandleTypeOK'
<1>1. ASSUME NEW h \in Handle, NEW recurs \in BOOLEAN, NEW rdonly \in BOOLEAN,
             DatLock(t, h, recurs, rdonly)
      PROVE  \E S \in SUBSET live, ro \in BOOLEAN :
                /\ \A x \in S : Grants(t, x, ro)
                /\ TakeLocks(t, S, ro) /\ UNCHANGED treeVars
  <2>1. ToLock(t, h, recurs, rdonly) \subseteq live
    BY DEF ToLock, BeforeRefusal
  <2> QED
    BY <1>1, <2>1, ToLockGrants DEF DatLock
<1>3. ASSUME NEW h \in Handle, DatNolock(t, h)
      PROVE  UNCHANGED <<live, parent, kids, name, writer, readers>> /\ HandleTypeOK'
  BY <1>3 DEF DatNolock, IInv, HandleTypeOK
<1>4. ASSUME NEW p \in Handle, NEW n \in Name, DatFind(t, p, n)
      PROVE  \/ \E S \in SUBSET live, ro \in BOOLEAN :
                   /\ \A x \in S : Grants(t, x, ro)
                   /\ TakeLocks(t, S, ro) /\ UNCHANGED treeVars
             \/ \E c \in Handle, q \in Handle \cup {NoHandle}, m \in TopName \cup Name,
                   ro \in BOOLEAN : Fits(q, m) /\ NewHandle(t, c, q, m, ro)
  <2>1. Inherited(t, p) \in BOOLEAN /\ p \in live
    BY <1>4 DEF Inherited, DatFind, Validated
  <2>2. CASE \E c \in ChildNamed(p, n) :
                /\ Grants(t, c, Inherited(t, p))
                /\ TakeLocks(t, {c}, Inherited(t, p))
                /\ UNCHANGED treeVars
    <3>1. PICK c \in ChildNamed(p, n) :
                /\ Grants(t, c, Inherited(t, p))
                /\ TakeLocks(t, {c}, Inherited(t, p))
                /\ UNCHANGED treeVars
      BY <2>2
    <3>2. {c} \in SUBSET live
      BY DEF ChildNamed
    <3>3. \A x \in {c} : Grants(t, x, Inherited(t, p))
      BY <3>1
    <3> QED
      BY <2>1, <3>1, <3>2, <3>3
  <2>3. CASE ChildNamed(p, n) = {} /\ \E c \in Handle : NewHandle(t, c, p, n, Inherited(t, p))
    BY <2>1, <2>3 DEF Fits
  <2> QED
    BY <1>4, <2>2, <2>3 DEF DatFind
<1>5. ASSUME NEW p \in Handle, NEW n \in Name, DatNew(t, p, n)
      PROVE  \E c \in Handle, q \in Handle \cup {NoHandle}, m \in TopName \cup Name,
                ro \in BOOLEAN : Fits(q, m) /\ NewHandle(t, c, q, m, ro)
  <2>1. Fits(p, n)
    BY <1>5 DEF DatNew, Validated, Fits
  <2> QED
    BY <1>5, <2>1 DEF DatNew, IInv, HandleTypeOK
<1>6. ASSUME NEW p \in Handle, NEW n \in Name, DatErase(t, p, n)
      PROVE  \E h \in Handle, top \in Handle \cup {NoHandle} :
                Prunes(h, top) /\ EraseHandles(Below(h), top) /\ stale' \subseteq TopName
  <2>1. PICK c \in ChildNamed(p, n) : EraseHandles(Below(c), c)
    BY <1>6 DEF DatErase
  <2>2. c \in Handle /\ Prunes(c, c)
    BY DEF ChildNamed, Prunes, IInv, HandleTypeOK
  <2> QED
    BY <1>6, <2>1, <2>2 DEF DatErase, IInv, HandleTypeOK
<1>7. ASSUME NEW n \in TopName, NEW rdonly \in BOOLEAN, OpenFirst(t, n, rdonly)
      PROVE  \E c \in Handle, q \in Handle \cup {NoHandle}, m \in TopName \cup Name,
                ro \in BOOLEAN : Fits(q, m) /\ NewHandle(t, c, q, m, ro)
  <2>1. Fits(NoHandle, n)
    BY DEF Fits
  <2> QED
    BY <1>7, <2>1 DEF OpenFirst
<1>8. ASSUME NEW n \in TopName, NEW rdonly \in BOOLEAN, OpenAgain(t, n, rdonly)
      PROVE  \E S \in SUBSET live, ro \in BOOLEAN :
                /\ \A x \in S : Grants(t, x, ro)
                /\ TakeLocks(t, S, ro) /\ UNCHANGED treeVars
  <2> DEFINE ro(h) == rdonly /\ Status(t, h) # WriteHere
  <2>1. PICK h \in TopNamed(n) :
            Grants(t, h, ro(h)) /\ TakeLocks(t, {h}, ro(h)) /\ UNCHANGED treeVars
    BY <1>8 DEF OpenAgain
  <2>2. {h} \in SUBSET live /\ ro(h) \in BOOLEAN
    BY DEF TopNamed
  <2>3. \A x \in {h} : Grants(t, x, ro(h))
    BY <2>1
  <2> HIDE DEF ro
  <2> QED
    BY <2>1, <2>2, <2>3
<1>9. ASSUME NEW n \in TopName, NEW rdonly \in BOOLEAN, OpenRefused(t, n, rdonly)
      PROVE  \E h \in Handle, top \in Handle \cup {NoHandle} :
                Prunes(h, top) /\ EraseHandles(Below(h), top) /\ stale' \subseteq TopName
  <2>1. PICK h \in TopNamed(n) : EraseHandles(Below(h), NoHandle)
    BY <1>9 DEF OpenRefused
  <2>2. h \in Handle /\ Prunes(h, NoHandle) /\ stale' \subseteq TopName
    BY <1>9 DEF TopNamed, Prunes, OpenRefused, IInv, HandleTypeOK
  <2> QED
    BY <2>1, <2>2
<1>10. ASSUME NEW n \in TopName, LastAnnul(t, n)
       PROVE  \/ \E h \in Handle, top \in Handle \cup {NoHandle} :
                    Prunes(h, top) /\ EraseHandles(Below(h), top) /\ stale' \subseteq TopName
              \/ UNCHANGED <<live, parent, kids, name, writer, readers>> /\ HandleTypeOK'
  <2>1. stale' \subseteq TopName
    BY <1>10 DEF LastAnnul, IInv, HandleTypeOK
  <2>2. CASE \E h \in TopNamed(n) : EraseHandles(Below(h), NoHandle)
    <3>1. PICK h \in TopNamed(n) : EraseHandles(Below(h), NoHandle)
      BY <2>2
    <3>2. h \in Handle /\ Prunes(h, NoHandle)
      BY DEF TopNamed, Prunes, IInv, HandleTypeOK
    <3> QED
      BY <2>1, <3>1, <3>2
  <2>3. CASE UNCHANGED <<live, parent, kids, name, docheck, writer, readers>>
    BY <2>1, <2>3 DEF IInv, HandleTypeOK
  <2> QED
    BY <1>10, <2>2, <2>3 DEF LastAnnul
<1> QED
  BY <1>1, <1>3, <1>4, <1>5, <1>6, <1>7, <1>8, <1>9, <1>10

\* No Handle exists at the start.
LEMMA InitInv == HandleInit => IInv
<1> SUFFICES ASSUME HandleInit PROVE IInv
  OBVIOUS
<1>1. \A S : <<>> \in Seq(S)
  OBVIOUS
<1> QED
  BY <1>1 DEF HandleInit, IInv, HandleTypeOK, LockStates

\* Every step keeps the inductive invariant.
LEMMA NextInv == IInv /\ [HandleNext]_handleVars => IInv'
<1> SUFFICES ASSUME IInv, [HandleNext]_handleVars PROVE IInv'
  OBVIOUS
<1>1. CASE UNCHANGED handleVars
  BY <1>1 DEF handleVars, IInv, HandleTypeOK, LockStates
<1>2. CASE HandleNext
  <2>1. PICK t \in Thread :
           \/ \E S \in SUBSET live, rdonly \in BOOLEAN :
                 /\ \A x \in S : Grants(t, x, rdonly)
                 /\ TakeLocks(t, S, rdonly) /\ UNCHANGED treeVars
           \/ \E h \in Handle, recurs \in BOOLEAN : DatUnlock(t, h, recurs)
           \/ \E c \in Handle, p \in Handle \cup {NoHandle}, n \in TopName \cup Name,
                 rdonly \in BOOLEAN : Fits(p, n) /\ NewHandle(t, c, p, n, rdonly)
           \/ \E h \in Handle, top \in Handle \cup {NoHandle} :
                 /\ Prunes(h, top)
                 /\ EraseHandles(Below(h), top) /\ stale' \subseteq TopName
           \/ UNCHANGED <<live, parent, kids, name, writer, readers>> /\ HandleTypeOK'
    BY <1>2, StepKinds DEF HandleNext
  <2>2. CASE UNCHANGED <<live, parent, kids, name, writer, readers>> /\ HandleTypeOK'
    BY <2>2 DEF IInv, LockStates
  <2>3. ASSUME NEW h \in Handle, NEW recurs \in BOOLEAN, DatUnlock(t, h, recurs)
        PROVE  IInv'
    BY <2>3, UnlockKind, DropLocksInv
  <2>4. ASSUME NEW h \in Handle, NEW top \in Handle \cup {NoHandle},
               EraseHandles(Below(h), top), stale' \subseteq TopName
        PROVE  IInv'
    <3>1. Below(h) \in SUBSET Handle
      BY DEF Below
    <3> QED
      BY <2>4, <3>1, EraseHandlesInv
  <2> QED
    BY <2>1, <2>2, <2>3, <2>4, TakeLocksInv, NewHandleInv
<1> QED
  BY <1>1, <1>2

\* In every reachable state every field of every Handle has its type.
THEOREM TypeCorrect == HandleSpec => []HandleTypeOK
<1>1. IInv => HandleTypeOK
  BY DEF IInv
<1> QED
  BY <1>1, InitInv, NextInv, PTL DEF HandleSpec

\* For any number of threads and Handles, every Handle is unlocked, or locked
\* for writing by one thread, or locked for reading by a set of threads.
THEOREM LockStatesCorrect == HandleSpec => []LockStates
<1>1. IInv => LockStates
  BY DEF IInv
<1> QED
  BY <1>1, InitInv, NextInv, PTL DEF HandleSpec

-----------------------------------------------------------------------------
(* HandleLock implements RWLock *)

USE DEF Locks!Free

\* No Handle is known, and none is locked, at the start.
LEMMA MappedInit == HandleInit => Locks!Init
<1> SUFFICES ASSUME HandleInit PROVE Locks!Init
  OBVIOUS
<1>1. \A h \in Handle : {writer[h]} \ {NoThread} = {} /\ ToSet(readers[h]) = {}
  BY DEF HandleInit, ToSet
<1> QED
  BY <1>1 DEF HandleInit, Locks!Init

\* Locks taken on Handles that grant them are locks taken in RWLock.
LEMMA TakeLocksRefines ==
    ASSUME IInv, NEW t \in Thread, NEW rdonly \in BOOLEAN, NEW S \in SUBSET live,
           \A x \in S : Grants(t, x, rdonly),
           TakeLocks(t, S, rdonly), UNCHANGED treeVars
    PROVE  Locks!ReadLock(t, S) \/ Locks!WriteLock(t, S)
<1>1. S \subseteq Handle /\ live' = live
  BY DEF IInv, HandleTypeOK, treeVars
<1>2. \A x \in Handle :
        /\ writer'[x] = IF x \notin S THEN writer[x] ELSE IF rdonly THEN NoThread ELSE t
        /\ readers'[x] = IF x \notin S THEN readers[x]
                         ELSE IF rdonly THEN WithReader(t, x) ELSE <<>>
  BY DEF TakeLocks
<1>3. CASE rdonly
  <2>1. \A x \in S : ToSet(WithReader(t, x)) = ToSet(readers[x]) \cup {t}
    BY <1>1, <1>3, WithReaderOk DEF IInv
  <2>2. \A x \in S : {writer[x]} \ {NoThread} \subseteq {t}
    BY <1>3 DEF Grants
  <2>3. \A x \in Handle :
          /\ {writer'[x]} \ {NoThread} = IF x \in S THEN {} ELSE {writer[x]} \ {NoThread}
          /\ ToSet(readers'[x]) = IF x \in S THEN ToSet(readers[x]) \cup {t}
                                  ELSE ToSet(readers[x])
    BY <1>2, <1>3, <2>1
  <2>4. Locks!ReadLock(t, S)
    BY <1>1, <2>2, <2>3 DEF Locks!ReadLock, Locks!MayRead
  <2> QED
    BY <2>4
<1>4. CASE ~rdonly
  <2>1. ToSet(<<>>) = {} /\ ToSet(<<t>>) = {t}
    BY DEF ToSet
  <2>2. \A x \in S : {writer[x]} \ {NoThread} \subseteq {t} /\ ToSet(readers[x]) \subseteq {t}
    BY <1>1, <1>4, <2>1 DEF Grants, IInv, LockStates
  <2>3. \A x \in Handle :
          /\ {writer'[x]} \ {NoThread} = IF x \in S THEN {t} ELSE {writer[x]} \ {NoThread}
          /\ ToSet(readers'[x]) = IF x \in S THEN {} ELSE ToSet(readers[x])
    BY <1>2, <1>4, <2>1
  <2>4. Locks!WriteLock(t, S)
    BY <1>1, <2>2, <2>3 DEF Locks!WriteLock, Locks!MayWrite
  <2> QED
    BY <2>4
<1> QED
  BY <1>3, <1>4

\* Locks released by their holder are locks released in RWLock.
LEMMA DropLocksRefines ==
    ASSUME IInv, NEW t \in Thread, NEW S \in SUBSET live,
           \A x \in S : Holds(t, x), DropLocks(t, S), UNCHANGED treeVars
    PROVE  Locks!Release(t, S)
<1>1. S \subseteq Handle /\ live' = live
  BY DEF IInv, HandleTypeOK, treeVars
<1>2. \A x \in S : ToSet(WithoutReader(t, x)) = ToSet(readers[x]) \ {t}
  BY <1>1, WithoutReaderOk DEF IInv
<1>3. \A x \in S : {writer[x]} \ {NoThread} \subseteq {t}
  BY DEF Holds, Status, WriteHere, WriteOther, ReadHere, ReadOther, Unlocked
<1>4. \A x \in Handle :
        /\ {writer'[x]} \ {NoThread} = IF x \in S THEN ({writer[x]} \ {NoThread}) \ {t}
                                       ELSE {writer[x]} \ {NoThread}
        /\ ToSet(readers'[x]) = IF x \in S THEN ToSet(readers[x]) \ {t} ELSE ToSet(readers[x])
  BY <1>2, <1>3 DEF DropLocks
<1> QED
  BY <1>1, <1>4 DEF Locks!Release

\* A Handle made for an object is that object appearing in RWLock.
LEMMA NewHandleRefines ==
    ASSUME IInv, NEW t \in Thread, NEW c \in Handle, NEW p, NEW n,
           NEW rdonly \in BOOLEAN, NewHandle(t, c, p, n, rdonly)
    PROVE  Locks!Create(t, c)
<1>1. c \notin live /\ live' = live \cup {c} /\ c \in Handle
  BY DEF NewHandle
<1>2. writer[c] = NoThread /\ readers[c] = <<>>
  BY <1>1 DEF IInv, LockStates
<1>3. \A x \in Handle :
        /\ writer'[x] = IF x = c THEN (IF rdonly THEN NoThread ELSE t) ELSE writer[x]
        /\ readers'[x] = IF x = c THEN (IF rdonly THEN <<t>> ELSE <<>>) ELSE readers[x]
  BY DEF NewHandle, IInv, HandleTypeOK
<1>4. ToSet(<<>>) = {} /\ ToSet(<<t>>) = {t}
  BY DEF ToSet
<1>5. \A x \in Handle :
        /\ {writer'[x]} \ {NoThread} = IF x = c THEN (IF rdonly THEN {} ELSE {t})
                                       ELSE {writer[x]} \ {NoThread}
        /\ ToSet(readers'[x]) = IF x = c THEN (IF rdonly THEN {t} ELSE {}) ELSE ToSet(readers[x])
  BY <1>3, <1>4
<1>6. {writer[c]} \ {NoThread} = {} /\ ToSet(readers[c]) = {}
  BY <1>2, <1>4
<1> DEFINE wr == [h \in Handle |-> {writer[h]} \ {NoThread}]
           rd == [h \in Handle |-> ToSet(readers[h])]
<1>7. CASE rdonly
  <2>1. wr' = wr /\ rd' = [rd EXCEPT ![c] = {t}]
    BY <1>5, <1>6, <1>7
  <2> QED
    BY <1>1, <2>1 DEF Locks!Create
<1>8. CASE ~rdonly
  <2>1. rd' = rd /\ wr' = [wr EXCEPT ![c] = {t}]
    BY <1>5, <1>6, <1>8
  <2> QED
    BY <1>1, <2>1 DEF Locks!Create
<1> QED
  BY <1>7, <1>8

\* Handles erased are objects that disappear from RWLock.
LEMMA EraseHandlesRefines ==
    ASSUME IInv, NEW S \in SUBSET Handle, NEW top, EraseHandles(S, top)
    PROVE  Locks!Destroy(S \cap live)
<1>1. \A x \in Handle \ live : writer[x] = NoThread /\ readers[x] = <<>>
  BY DEF IInv, LockStates
<1>2. ToSet(<<>>) = {}
  BY DEF ToSet
<1>3. \A x \in Handle :
        /\ {writer'[x]} \ {NoThread} = IF x \in S \cap live THEN {} ELSE {writer[x]} \ {NoThread}
        /\ ToSet(readers'[x]) = IF x \in S \cap live THEN {} ELSE ToSet(readers[x])
  BY <1>1, <1>2 DEF EraseHandles
<1>4. live' = live \ (S \cap live)
  BY DEF EraseHandles
<1> QED
  BY <1>3, <1>4 DEF Locks!Destroy

\* Every step of HandleLock is a step of RWLock or leaves it unchanged.
LEMMA NextRefines == IInv /\ [HandleNext]_handleVars => [Locks!Next]_(Locks!lockVars)
<1> SUFFICES ASSUME IInv, [HandleNext]_handleVars PROVE [Locks!Next]_(Locks!lockVars)
  OBVIOUS
<1>1. CASE UNCHANGED <<live, writer, readers>>
  BY <1>1 DEF Locks!lockVars
<1>2. CASE HandleNext
  <2>1. PICK t \in Thread :
           \/ \E S \in SUBSET live, rdonly \in BOOLEAN :
                 /\ \A x \in S : Grants(t, x, rdonly)
                 /\ TakeLocks(t, S, rdonly) /\ UNCHANGED treeVars
           \/ \E h \in Handle, recurs \in BOOLEAN : DatUnlock(t, h, recurs)
           \/ \E c \in Handle, p \in Handle \cup {NoHandle}, n \in TopName \cup Name,
                 rdonly \in BOOLEAN : Fits(p, n) /\ NewHandle(t, c, p, n, rdonly)
           \/ \E h \in Handle, top \in Handle \cup {NoHandle} :
                 /\ Prunes(h, top)
                 /\ EraseHandles(Below(h), top) /\ stale' \subseteq TopName
           \/ UNCHANGED <<live, parent, kids, name, writer, readers>> /\ HandleTypeOK'
    BY <1>2, StepKinds DEF HandleNext
  <2>2. ASSUME NEW S \in SUBSET live, NEW rdonly \in BOOLEAN,
               \A x \in S : Grants(t, x, rdonly),
               TakeLocks(t, S, rdonly), UNCHANGED treeVars
        PROVE  Locks!Next
    BY <2>2, TakeLocksRefines DEF Locks!Next
  <2>3. ASSUME NEW h \in Handle, NEW recurs \in BOOLEAN, DatUnlock(t, h, recurs)
        PROVE  Locks!Next
    BY <2>3, UnlockKind, DropLocksRefines DEF Locks!Next
  <2>4. ASSUME NEW c \in Handle, NEW p \in Handle \cup {NoHandle},
               NEW n \in TopName \cup Name, NEW rdonly \in BOOLEAN,
               NewHandle(t, c, p, n, rdonly)
        PROVE  Locks!Next
    BY <2>4, NewHandleRefines DEF Locks!Next
  <2>5. ASSUME NEW h \in Handle, NEW top \in Handle \cup {NoHandle},
               EraseHandles(Below(h), top)
        PROVE  Locks!Next
    <3>1. PICK S \in SUBSET Handle : S = Below(h)
      BY DEF Below
    <3>2. Locks!Destroy(S \cap live)
      BY <2>5, <3>1, EraseHandlesRefines
    <3>3. PICK R \in SUBSET live : R = S \cap live
      OBVIOUS
    <3>4. Locks!Destroy(R)
      BY <3>2, <3>3 DEF Locks!Destroy
    <3> QED
      BY <3>4 DEF Locks!Next
  <2> QED
    BY <1>1, <2>1, <2>2, <2>3, <2>4, <2>5
<1> QED
  BY <1>1, <1>2 DEF handleVars

\* The locks kept in Handles are readers-writer locks, whatever the tree of
\* components and the order of the calls.
THEOREM HandleLockImplementsRWLock == HandleSpec => ImplementsRWLock
<1>1. HandleInit => Locks!Init
  BY MappedInit
<1>2. IInv /\ [HandleNext]_handleVars => [Locks!Next]_(Locks!lockVars)
  BY NextRefines
<1> QED
  BY <1>1, <1>2, InitInv, NextInv, PTL DEF HandleSpec, ImplementsRWLock, Locks!Spec

-----------------------------------------------------------------------------
(* Who loses a lock *)

\* What "holds" means for a Handle in one of the three lock states.
LEMMA HoldsIs ==
    ASSUME NEW t \in Thread, NEW h
    PROVE  Holds(t, h) <=> writer[h] = t \/ (writer[h] = NoThread /\ t \in ToSet(readers[h]))
<1>1. readers[h] = <<>> => ToSet(readers[h]) = {}
  BY DEF ToSet
<1> QED
  BY <1>1 DEF Holds, Status, WriteHere, WriteOther, ReadHere, ReadOther, Unlocked

\* The same after a step.
LEMMA HoldsIsNext ==
    ASSUME NEW t \in Thread, NEW h
    PROVE  Holds(t, h)' <=> writer'[h] = t \/ (writer'[h] = NoThread /\ t \in ToSet(readers'[h]))
<1>1. readers'[h] = <<>> => ToSet(readers'[h]) = {}
  BY DEF ToSet
<1> QED
  BY <1>1 DEF Holds, Status, WriteHere, WriteOther, ReadHere, ReadOther, Unlocked

\* A lock that is granted takes no lock away from any thread.
LEMMA TakeLocksKeeps ==
    ASSUME IInv, NEW t \in Thread, NEW rdonly \in BOOLEAN, NEW S \in SUBSET live,
           \A x \in S : Grants(t, x, rdonly), TakeLocks(t, S, rdonly),
           NEW u \in Thread, NEW h \in live, Holds(u, h)
    PROVE  Holds(u, h)'
<1>1. h \in Handle
  BY DEF IInv, HandleTypeOK
<1>2. /\ writer'[h] = IF h \notin S THEN writer[h] ELSE IF rdonly THEN NoThread ELSE t
      /\ readers'[h] = IF h \notin S THEN readers[h]
                       ELSE IF rdonly THEN WithReader(t, h) ELSE <<>>
  BY <1>1 DEF TakeLocks
<1>3. writer[h] = u \/ (writer[h] = NoThread /\ u \in ToSet(readers[h]))
  BY HoldsIs
<1>4. CASE h \notin S
  BY <1>2, <1>3, <1>4, HoldsIsNext
<1>5. CASE h \in S /\ rdonly
  <2>1. Grants(t, h, TRUE)
    BY <1>5
  <2>2. ToSet(WithReader(t, h)) = ToSet(readers[h]) \cup {t}
    BY <1>1, <2>1, WithReaderOk DEF IInv
  <2>3. u \in ToSet(readers'[h])
    BY <1>2, <1>3, <1>5, <2>1, <2>2 DEF Grants
  <2> QED
    BY <1>2, <1>5, <2>3, HoldsIsNext
<1>6. CASE h \in S /\ ~rdonly
  <2>1. ToSet(<<>>) = {} /\ ToSet(<<t>>) = {t}
    BY DEF ToSet
  <2>2. (readers[h] = <<>> /\ writer[h] \in {t, NoThread}) \/ readers[h] = <<t>>
    BY <1>6 DEF Grants
  <2>3. u = t
    BY <1>1, <1>3, <2>1, <2>2 DEF IInv, LockStates
  <2> QED
    BY <1>2, <1>6, <2>3, HoldsIsNext
<1> QED
  BY <1>4, <1>5, <1>6

\* The locks that datUnlock releases are those of its caller, on Handles that
\* it visits.
LEMMA DropLocksKeeps ==
    ASSUME IInv, NEW t \in Thread, NEW S \in SUBSET live,
           \A x \in S : Holds(t, x), DropLocks(t, S),
           NEW u \in Thread, NEW h \in live, Holds(u, h), ~Holds(u, h)'
    PROVE  u = t /\ h \in S
<1>1. h \in Handle
  BY DEF IInv, HandleTypeOK
<1>2. /\ writer'[h] = IF h \in S THEN NoThread ELSE writer[h]
      /\ readers'[h] = IF h \in S THEN WithoutReader(t, h) ELSE readers[h]
  BY <1>1 DEF DropLocks
<1>3. writer[h] = u \/ (writer[h] = NoThread /\ u \in ToSet(readers[h]))
  BY HoldsIs
<1>4. h \in S
  BY <1>2, <1>3, HoldsIsNext
<1>5. ToSet(WithoutReader(t, h)) = ToSet(readers[h]) \ {t}
  BY <1>1, <1>4, WithoutReaderOk DEF IInv
<1>6. writer[h] = t \/ (writer[h] = NoThread /\ t \in ToSet(readers[h]))
  BY <1>4, HoldsIs
<1>7. u = t
  BY <1>2, <1>3, <1>4, <1>5, <1>6, HoldsIsNext
<1> QED
  BY <1>4, <1>7

\* A step after which a thread has lost its lock on a Handle that stays.
LEMMA LosesByUnlock ==
    ASSUME IInv, HandleNext, NEW u \in Thread, NEW h \in live \cap live',
           Holds(u, h), ~Holds(u, h)'
    PROVE  \E g \in live, recurs \in BOOLEAN :
              h \in ToSet(Visited(g, recurs)) /\ DatUnlock(u, g, recurs)
<1>1. PICK t \in Thread :
           \/ \E S \in SUBSET live, rdonly \in BOOLEAN :
                 /\ \A x \in S : Grants(t, x, rdonly)
                 /\ TakeLocks(t, S, rdonly) /\ UNCHANGED treeVars
           \/ \E g \in Handle, recurs \in BOOLEAN : DatUnlock(t, g, recurs)
           \/ \E c \in Handle, p \in Handle \cup {NoHandle}, n \in TopName \cup Name,
                 rdonly \in BOOLEAN : Fits(p, n) /\ NewHandle(t, c, p, n, rdonly)
           \/ \E g \in Handle, top \in Handle \cup {NoHandle} :
                 /\ Prunes(g, top)
                 /\ EraseHandles(Below(g), top) /\ stale' \subseteq TopName
           \/ UNCHANGED <<live, parent, kids, name, writer, readers>> /\ HandleTypeOK'
  BY StepKinds DEF HandleNext
<1>2. h \in Handle
  BY DEF IInv, HandleTypeOK
<1>3. writer'[h] # writer[h] \/ readers'[h] # readers[h]
  BY HoldsIs, HoldsIsNext
<1>4. ASSUME NEW c \in Handle, NEW p, NEW n, NEW rdonly, NewHandle(t, c, p, n, rdonly)
      PROVE  FALSE
  BY <1>2, <1>3, <1>4 DEF NewHandle, IInv, HandleTypeOK
<1>5. ASSUME NEW g, NEW top, EraseHandles(Below(g), top)
      PROVE  FALSE
  BY <1>2, <1>3, <1>5 DEF EraseHandles
<1>6. PICK g \in Handle, recurs \in BOOLEAN : DatUnlock(t, g, recurs)
  BY <1>1, <1>3, <1>4, <1>5, TakeLocksKeeps
<1>7. PICK S \in SUBSET live :
              /\ S \subseteq ToSet(Visited(g, recurs))
              /\ \A x \in S : Holds(t, x)
              /\ DropLocks(t, S) /\ UNCHANGED treeVars
  BY <1>6, UnlockKind
<1>8. u = t /\ h \in S
  BY <1>7, DropLocksKeeps
<1>9. g \in live
  BY <1>6 DEF DatUnlock
<1> QED
  BY <1>6, <1>7, <1>8, <1>9

\* No thread's call, refused or not, takes a lock from another thread, nor from
\* its caller unless it is the datUnlock that was asked for it.
THEOREM LocksLostOnlyByUnlock == HandleSpec => LostOnlyByUnlock
<1>1. IInv /\ [HandleNext]_handleVars =>
        [\A t \in Thread, h \in live \cap live' :
            Holds(t, h) /\ ~Holds(t, h)' =>
              \E g \in live, recurs \in BOOLEAN :
                 h \in ToSet(Visited(g, recurs)) /\ DatUnlock(t, g, recurs)]_handleVars
  BY LosesByUnlock
<1> QED
  BY <1>1, InitInv, NextInv, PTL DEF HandleSpec, LostOnlyByUnlock

-----------------------------------------------------------------------------
(* The tree of Handles *)

\* What is below a Handle is closed under components and has the Handle.
LEMMA BelowClosed ==
    ASSUME NEW h \in Handle
    PROVE  /\ Below(h) \in SUBSET Handle /\ h \in Below(h)
           /\ \A y \in Below(h) : Children(y) \subseteq Below(h)
<1>1. Below(h) \subseteq Handle /\ h \in Below(h)
  BY DEF Below
<1>2. ASSUME NEW y \in Below(h), NEW x \in Children(y) PROVE x \in Below(h)
  <2>1. x \in Handle
    BY DEF Children
  <2>2. ASSUME NEW S \in SUBSET Handle, h \in S, \A z \in S : Children(z) \subseteq S
        PROVE  x \in S
    <3>1. y \in S
      BY <2>2 DEF Below
    <3> QED
      BY <2>2, <3>1
  <2> QED
    BY <2>1, <2>2 DEF Below
<1> QED
  BY <1>1, <1>2

\* A component of p names p as its parent.
LEMMA ChildsParent ==
    ASSUME HandleTypeOK, TreeLinks, NEW p \in Handle, NEW x \in Children(p)
    PROVE  parent[x] = p
<1>1. PICK i \in DOMAIN kids[p] : kids[p][i] = x
  BY DEF Children, ToSet
<1>2. x # NoHandle
  BY DEF Children
<1> QED
  BY <1>1, <1>2 DEF TreeLinks

\* Except for the Handle itself, what is below a Handle is a component of
\* nothing but a Handle that is below it too.
LEMMA BelowFromBelow ==
    ASSUME HandleTypeOK, TreeLinks, NEW h \in Handle, NEW y \in Below(h), y # h,
           NEW p \in Handle, y \in Children(p)
    PROVE  p \in Below(h)
<1> SUFFICES ASSUME p \notin Below(h) PROVE FALSE
  OBVIOUS
<1> DEFINE S == Below(h) \ {y}
<1>1. S \in SUBSET Handle /\ h \in S
  BY BelowClosed
<1>2. ASSUME NEW z \in S PROVE Children(z) \subseteq S
  <2>1. Children(z) \subseteq Below(h) /\ z \in Handle /\ z # p
    BY BelowClosed
  <2>2. y \notin Children(z)
    BY <2>1, ChildsParent
  <2> QED
    BY <2>1, <2>2
<1>3. y \in S
  BY <1>1, <1>2 DEF Below
<1> QED
  BY <1>3

\* Where dat1Handle puts a new child: in the last empty slot of its parent's
\* array, or in a new one.
LEMMA NewSlot ==
    ASSUME HandleTypeOK, NEW t, NEW c \in Handle, NEW p \in Handle, NEW n, NEW rdonly,
           NewHandle(t, c, p, n, rdonly)
    PROVE  \E k : /\ k \in DOMAIN kids[p] => kids[p][k] = NoHandle
                  /\ DOMAIN kids'[p] = DOMAIN kids[p] \cup {k}
                  /\ kids'[p][k] = c
                  /\ \A i \in DOMAIN kids[p] \ {k} : kids'[p][i] = kids[p][i]
<1>1. kids[p] \in Seq(Handle \cup {NoHandle})
  BY DEF HandleTypeOK
<1>2. kids'[p] = IF EmptySlots(p) = {} THEN Append(kids[p], c)
                 ELSE [kids[p] EXCEPT ![Max(EmptySlots(p))] = c]
  BY DEF NewHandle
<1>3. CASE EmptySlots(p) = {}
  <2> DEFINE k == Len(kids[p]) + 1
  <2>1. kids'[p] = Append(kids[p], c)
    BY <1>2, <1>3
  <2>2. /\ Len(kids[p]) \in Nat /\ DOMAIN kids[p] = 1..Len(kids[p])
        /\ DOMAIN Append(kids[p], c) = 1..k
        /\ Append(kids[p], c)[k] = c
        /\ \A i \in 1..Len(kids[p]) : Append(kids[p], c)[i] = kids[p][i]
    BY <1>1
  <2>3. 1..k = (1..Len(kids[p])) \cup {k} /\ k \notin 1..Len(kids[p])
    BY <2>2
  <2> QED
    BY <2>1, <2>2, <2>3
<1>4. CASE EmptySlots(p) # {}
  <2> DEFINE k == Max(EmptySlots(p))
  <2>1. k \in EmptySlots(p)
    <3>1. Len(kids[p]) \in Nat /\ EmptySlots(p) \in SUBSET (1..Len(kids[p]))
      BY <1>1 DEF EmptySlots
    <3> QED
      BY <1>4, <3>1, LastPosition
  <2>2. k \in DOMAIN kids[p] /\ kids[p][k] = NoHandle
    BY <2>1 DEF EmptySlots
  <2>3. kids'[p] = [kids[p] EXCEPT ![k] = c]
    BY <1>2, <1>4
  <2> HIDE DEF k
  <2> QED
    BY <2>2, <2>3
<1> QED
  BY <1>3, <1>4

\* A new Handle is linked to its parent in both directions.
LEMMA NewHandleLinks ==
    ASSUME HandleTypeOK, TreeLinks, NEW t, NEW c \in Handle,
           NEW p \in Handle \cup {NoHandle}, NEW n, NEW rdonly,
           Fits(p, n), NewHandle(t, c, p, n, rdonly)
    PROVE  TreeLinks'
<1>1. /\ live' = live \cup {c} /\ c \notin live /\ live \subseteq Handle
      /\ \A x \in Handle : /\ parent'[x] = IF x = c THEN p ELSE parent[x]
                           /\ name'[x] = IF x = c THEN n ELSE name[x]
                           /\ x # p => kids'[x] = kids[x]
  BY DEF NewHandle, HandleTypeOK
<1>2. \A x \in Handle : \A i \in DOMAIN kids[x] :
         kids[x][i] = NoHandle \/ kids[x][i] \in Handle
  BY DEF HandleTypeOK
<1>3. ASSUME p \in Handle
      PROVE  \E k : /\ k \in DOMAIN kids[p] => kids[p][k] = NoHandle
                    /\ DOMAIN kids'[p] = DOMAIN kids[p] \cup {k}
                    /\ kids'[p][k] = c
                    /\ \A i \in DOMAIN kids[p] \ {k} : kids'[p][i] = kids[p][i]
  BY <1>3, NewSlot
<1>4. ASSUME NEW x \in Handle, x # p, NEW i \in DOMAIN kids'[x], kids'[x][i] # NoHandle
      PROVE  /\ x \in live' /\ kids'[x][i] \in live'
             /\ parent'[kids'[x][i]] = x
             /\ \A j \in DOMAIN kids'[x] \ {i} : kids'[x][j] # NoHandle =>
                    name'[kids'[x][j]] # name'[kids'[x][i]]
  <2>1. /\ x \in live /\ kids[x][i] \in live /\ parent[kids[x][i]] = x
        /\ \A j \in DOMAIN kids[x] \ {i} : kids[x][j] # NoHandle =>
              kids[x][j] \in live /\ name[kids[x][j]] # name[kids[x][i]]
    BY <1>1, <1>4 DEF TreeLinks
  <2> QED
    BY <1>1, <1>4, <2>1
<1>5. ASSUME p \in Handle, NEW i \in DOMAIN kids'[p], kids'[p][i] # NoHandle
      PROVE  /\ p \in live' /\ kids'[p][i] \in live'
             /\ parent'[kids'[p][i]] = p
             /\ \A j \in DOMAIN kids'[p] \ {i} : kids'[p][j] # NoHandle =>
                    name'[kids'[p][j]] # name'[kids'[p][i]]
  <2>1. PICK k : /\ k \in DOMAIN kids[p] => kids[p][k] = NoHandle
                 /\ DOMAIN kids'[p] = DOMAIN kids[p] \cup {k}
                 /\ kids'[p][k] = c
                 /\ \A j \in DOMAIN kids[p] \ {k} : kids'[p][j] = kids[p][j]
    BY <1>5, <1>3
  <2>2. p \in live /\ ChildNamed(p, n) = {}
    BY <1>5 DEF Fits
  <2>3. ASSUME NEW j \in DOMAIN kids'[p] \ {k}, kids'[p][j] # NoHandle
        PROVE  /\ j \in DOMAIN kids[p] /\ kids'[p][j] = kids[p][j]
               /\ kids[p][j] \in live /\ parent[kids[p][j]] = p
               /\ name[kids[p][j]] # n
    <3>1. j \in DOMAIN kids[p] /\ kids'[p][j] = kids[p][j]
      BY <2>1, <2>3
    <3>2. kids[p][j] \in live /\ parent[kids[p][j]] = p
      BY <1>5, <2>3, <3>1 DEF TreeLinks
    <3> QED
      BY <2>2, <3>1, <3>2 DEF ChildNamed
  <2>4. CASE i = k
    BY <1>1, <1>5, <2>1, <2>2, <2>3, <2>4
  <2>5. CASE i # k
    <3>1. \A j \in DOMAIN kids'[p] \ {i} : kids'[p][j] # NoHandle =>
             name'[kids'[p][j]] # name'[kids'[p][i]]
      <4> SUFFICES ASSUME NEW j \in DOMAIN kids'[p] \ {i}, kids'[p][j] # NoHandle
                   PROVE  name'[kids'[p][j]] # name'[kids'[p][i]]
        OBVIOUS
      <4>1. kids[p][i] \in live /\ kids'[p][i] = kids[p][i] /\ name[kids[p][i]] # n
        BY <1>5, <2>3, <2>5
      <4>2. CASE j = k
        BY <1>1, <2>1, <4>1, <4>2
      <4>3. CASE j # k
        <5>1. kids[p][j] \in live /\ kids'[p][j] = kids[p][j]
          BY <2>3, <4>3
        <5>2. i \in DOMAIN kids[p] /\ j \in DOMAIN kids[p]
          BY <1>5, <2>3, <2>5, <4>3
        <5>3. kids[p][i] # NoHandle /\ kids[p][j] # NoHandle
          BY <4>1, <5>1, <1>5
        <5>4. name[kids[p][j]] # name[kids[p][i]]
          BY <1>5, <5>2, <5>3 DEF TreeLinks
        <5> QED
          BY <1>1, <4>1, <5>1, <5>4
      <4> QED
        BY <4>2, <4>3
    <3>2. kids[p][i] \in live /\ kids'[p][i] = kids[p][i] /\ parent[kids[p][i]] = p
      BY <1>5, <2>3, <2>5
    <3> QED
      BY <1>1, <2>2, <3>1, <3>2
  <2> QED
    BY <2>4, <2>5
<1>6. ASSUME NEW x \in Handle, x \in live', parent'[x] # NoHandle
      PROVE  \E i \in DOMAIN kids'[parent'[x]] : kids'[parent'[x]][i] = x
  <2>1. CASE x = c
    <3>1. p \in Handle /\ parent'[x] = p
      BY <1>1, <1>6, <2>1
    <3> QED
      BY <2>1, <3>1, <1>3
  <2>2. CASE x # c
    <3>1. x \in live /\ parent'[x] = parent[x] /\ parent[x] \in Handle
      BY <1>1, <1>6, <2>2 DEF HandleTypeOK
    <3>2. PICK i \in DOMAIN kids[parent[x]] : kids[parent[x]][i] = x
      BY <1>6, <3>1 DEF TreeLinks
    <3>3. CASE parent[x] # p
      BY <1>1, <3>1, <3>2, <3>3
    <3>4. CASE parent[x] = p
      <4>1. p \in Handle
        BY <3>1, <3>4
      <4>2. PICK k : /\ k \in DOMAIN kids[p] => kids[p][k] = NoHandle
                     /\ DOMAIN kids'[p] = DOMAIN kids[p] \cup {k}
                     /\ kids'[p][k] = c
                     /\ \A j \in DOMAIN kids[p] \ {k} : kids'[p][j] = kids[p][j]
        BY <4>1, <1>3
      <4>3. i # k
        BY <1>6, <3>2, <3>4, <4>2
      <4> QED
        BY <3>1, <3>2, <3>4, <4>2, <4>3
    <3> QED
      BY <3>3, <3>4
  <2> QED
    BY <2>1, <2>2
<1> QED
  BY <1>4, <1>5, <1>6 DEF TreeLinks

\* Erasing a Handle with all that is below it leaves no link to any of them.
LEMMA EraseHandlesLinks ==
    ASSUME HandleTypeOK, TreeLinks, NEW h \in Handle, NEW top, Prunes(h, top),
           EraseHandles(Below(h), top)
    PROVE  TreeLinks'
<1> DEFINE S == Below(h)
<1>1. /\ live' = live \ S
      /\ \A x \in Handle \ S : /\ parent'[x] = parent[x] /\ name'[x] = name[x]
                               /\ kids'[x] = [i \in DOMAIN kids[x] |->
                                      IF kids[x][i] = top THEN NoHandle ELSE kids[x][i]]
      /\ \A x \in S : kids'[x] = <<>>
  BY BelowClosed DEF EraseHandles
<1>2. ASSUME NEW x \in Handle \ S, NEW y \in Children(x), y \in S
      PROVE  y = top
  <2>1. y = h
    BY <1>2, BelowFromBelow
  <2>2. parent[h] # NoHandle
    BY <1>2, <2>1, ChildsParent
  <2> QED
    BY <2>1, <2>2 DEF Prunes
<1>3. ASSUME NEW x \in Handle, NEW i \in DOMAIN kids'[x], kids'[x][i] # NoHandle
      PROVE  /\ x \in live \ S /\ i \in DOMAIN kids[x] /\ kids'[x][i] = kids[x][i]
             /\ kids[x][i] \in live \ S
  <2>1. x \notin S
    BY <1>1, <1>3
  <2>2. i \in DOMAIN kids[x] /\ kids'[x][i] = kids[x][i] /\ kids[x][i] # top
    <3>1. kids'[x] = [j \in DOMAIN kids[x] |->
                         IF kids[x][j] = top THEN NoHandle ELSE kids[x][j]]
      BY <1>1, <2>1
    <3>2. i \in DOMAIN kids[x]
      BY <1>3, <3>1
    <3>3. kids'[x][i] = IF kids[x][i] = top THEN NoHandle ELSE kids[x][i]
      BY <3>1, <3>2
    <3> QED
      BY <1>3, <3>2, <3>3
  <2>3. x \in live /\ kids[x][i] \in live
    BY <1>3, <2>2 DEF TreeLinks
  <2>4. kids[x][i] \in Children(x)
    BY <2>2, <2>3 DEF Children, ToSet, HandleTypeOK
  <2> QED
    BY <1>2, <2>1, <2>2, <2>3, <2>4
<1>4. ASSUME NEW x \in Handle, NEW i \in DOMAIN kids'[x], kids'[x][i] # NoHandle
      PROVE  /\ x \in live' /\ kids'[x][i] \in live' /\ parent'[kids'[x][i]] = x
             /\ \A j \in DOMAIN kids'[x] \ {i} : kids'[x][j] # NoHandle =>
                    name'[kids'[x][j]] # name'[kids'[x][i]]
  <2>1. live \subseteq Handle
    BY DEF HandleTypeOK
  <2>2. \A y \in live \ S : parent'[y] = parent[y] /\ name'[y] = name[y]
    BY <1>1, <2>1
  <2>3. parent[kids[x][i]] = x
    BY <1>3, <1>4 DEF TreeLinks
  <2>4. ASSUME NEW j \in DOMAIN kids'[x] \ {i}, kids'[x][j] # NoHandle
        PROVE  name'[kids'[x][j]] # name'[kids'[x][i]]
    <3>1. /\ j \in DOMAIN kids[x] /\ kids'[x][j] = kids[x][j] /\ kids[x][j] \in live \ S
          /\ i \in DOMAIN kids[x] /\ kids'[x][i] = kids[x][i] /\ kids[x][i] \in live \ S
      BY <1>3, <1>4, <2>4
    <3>2. name[kids[x][j]] # name[kids[x][i]]
      BY <1>4, <2>4, <3>1 DEF TreeLinks
    <3> QED
      BY <2>2, <3>1, <3>2
  <2> HIDE DEF S
  <2> QED
    BY <1>1, <1>3, <1>4, <2>2, <2>3, <2>4
<1>5. ASSUME NEW x \in Handle, x \in live', parent'[x] # NoHandle
      PROVE  \E i \in DOMAIN kids'[parent'[x]] : kids'[parent'[x]][i] = x
  <2>1. x \in live /\ x \notin S /\ parent'[x] = parent[x] /\ parent[x] \in Handle
    BY <1>1, <1>5 DEF HandleTypeOK
  <2>2. PICK i \in DOMAIN kids[parent[x]] : kids[parent[x]][i] = x
    BY <1>5, <2>1 DEF TreeLinks
  <2>3. x \in Children(parent[x])
    BY <2>2 DEF Children, ToSet
  <2>4. parent[x] \notin S
    BY <2>1, <2>3, BelowClosed
  <2>5. x # top
    BY <2>1, BelowClosed DEF Prunes
  <2>6. kids'[parent[x]] = [j \in DOMAIN kids[parent[x]] |->
                               IF kids[parent[x]][j] = top THEN NoHandle ELSE kids[parent[x]][j]]
    BY <1>1, <2>1, <2>4
  <2>7. i \in DOMAIN kids'[parent[x]] /\ kids'[parent[x]][i] = x
    BY <2>2, <2>5, <2>6
  <2> QED
    BY <2>1, <2>7
<1> QED
  BY <1>4, <1>5 DEF TreeLinks

\* The links of the tree agree at the start and after every step.
LEMMA InitLinks == HandleInit => TreeLinks
  BY DEF HandleInit, TreeLinks

\* Every step keeps the links: calls for locks leave the tree alone, a new
\* Handle comes under a live one that has no child of its name, and what is erased
\* is a whole tree.
LEMMA NextLinks == IInv /\ TreeLinks /\ [HandleNext]_handleVars => TreeLinks'
<1> SUFFICES ASSUME IInv, TreeLinks, [HandleNext]_handleVars PROVE TreeLinks'
  OBVIOUS
<1>1. CASE UNCHANGED <<live, parent, kids, name>>
  BY <1>1 DEF TreeLinks
<1>2. CASE HandleNext
  <2>1. PICK t \in Thread :
           \/ \E S \in SUBSET live, rdonly \in BOOLEAN :
                 /\ \A x \in S : Grants(t, x, rdonly)
                 /\ TakeLocks(t, S, rdonly) /\ UNCHANGED treeVars
           \/ \E h \in Handle, recurs \in BOOLEAN : DatUnlock(t, h, recurs)
           \/ \E c \in Handle, p \in Handle \cup {NoHandle}, n \in TopName \cup Name,
                 rdonly \in BOOLEAN : Fits(p, n) /\ NewHandle(t, c, p, n, rdonly)
           \/ \E h \in Handle, top \in Handle \cup {NoHandle} :
                 /\ Prunes(h, top)
                 /\ EraseHandles(Below(h), top) /\ stale' \subseteq TopName
           \/ UNCHANGED <<live, parent, kids, name, writer, readers>> /\ HandleTypeOK'
    BY <1>2, StepKinds DEF HandleNext
  <2>2. CASE UNCHANGED treeVars
    BY <1>1, <2>2 DEF treeVars
  <2>3. ASSUME NEW h, NEW recurs, DatUnlock(t, h, recurs) PROVE UNCHANGED treeVars
    BY <2>3 DEF DatUnlock
  <2> QED
    BY <1>1, <2>1, <2>2, <2>3, NewHandleLinks, EraseHandlesLinks DEF IInv
<1> QED
  BY <1>1, <1>2 DEF handleVars

\* However Handles are made and erased, a child's parent is the Handle whose
\* array it is in, both are live, and no two children have the same name.
THEOREM TreeLinksCorrect == HandleSpec => []TreeLinks
<1>1. HandleSpec => [](IInv /\ TreeLinks)
  BY InitInv, NextInv, InitLinks, NextLinks, PTL DEF HandleSpec
<1> QED
  BY <1>1, PTL

-----------------------------------------------------------------------------
(* The recursive query *)

\* The tree has no circles: Handles can be numbered so that a component has a
\* higher number than its parent.  (Their age is such a numbering.)
Numbering(n, b) ==
    b \in [Handle -> 0..n] /\ \A p \in Handle : \A x \in Children(p) : b[p] < b[x]

NoCircles == \E n \in Nat : \E b : Numbering(n, b)

\* In the beginning nothing has a component.
LEMMA InitNoCircles == HandleInit => NoCircles
<1> SUFFICES ASSUME HandleInit PROVE NoCircles
  OBVIOUS
<1>1. \A p \in Handle : Children(p) = {}
  BY DEF HandleInit, Children, ToSet
<1>2. Numbering(0, [h \in Handle |-> 0])
  BY <1>1 DEF Numbering
<1> QED
  BY <1>2 DEF NoCircles

\* A step that gives no Handle a new component keeps a numbering.
LEMMA FewerChildren ==
    ASSUME NoCircles, \A p \in Handle : Children(p)' \subseteq Children(p)
    PROVE  NoCircles'
<1>1. PICK n \in Nat : \E b : Numbering(n, b)
  BY DEF NoCircles
<1>2. PICK b : Numbering(n, b)
  BY <1>1
<1>3. Numbering(n, b)'
  BY <1>2 DEF Numbering
<1> QED
  BY <1>3 DEF NoCircles

\* A new Handle has no components, and is a component of its parent only.
LEMMA NewChildren ==
    ASSUME HandleTypeOK, TreeLinks, NEW t, NEW c \in Handle, NEW p, NEW n, NEW rdonly,
           Fits(p, n), NewHandle(t, c, p, n, rdonly), NEW q \in Handle
    PROVE  /\ c \notin Children(q)
           /\ Children(q)' \subseteq Children(q) \cup (IF q = p THEN {c} ELSE {})
           /\ q = c => Children(q)' = {}
<1>1. c \notin live
  BY DEF NewHandle
<1>2. \A i \in DOMAIN kids[q] : kids[q][i] # NoHandle => q \in live /\ kids[q][i] \in live
  BY DEF TreeLinks
<1>3. Children(q) \subseteq live /\ (q \notin live => Children(q) = {})
  BY <1>2 DEF Children, ToSet
<1>4. CASE q # p
  <2>1. kids'[q] = kids[q]
    BY <1>4 DEF NewHandle
  <2> QED
    BY <1>1, <1>3, <1>4, <2>1 DEF Children
<1>5. CASE q = p
  <2>1. q # c
    BY <1>1, <1>5 DEF Fits
  <2>2. \E k : /\ k \in DOMAIN kids[p] => kids[p][k] = NoHandle
               /\ DOMAIN kids'[p] = DOMAIN kids[p] \cup {k}
               /\ kids'[p][k] = c
               /\ \A i \in DOMAIN kids[p] \ {k} : kids'[p][i] = kids[p][i]
    <3>1. p \in Handle
      BY <1>5
    <3> QED
      BY <3>1, NewSlot
  <2>3. ToSet(kids'[q]) \subseteq ToSet(kids[q]) \cup {c}
    BY <1>5, <2>2 DEF ToSet
  <2> QED
    BY <1>1, <1>3, <1>5, <2>1, <2>3 DEF Children
<1> QED
  BY <1>4, <1>5

\* A new Handle has no components yet, so it may get a number higher than all.
LEMMA NewHandleNoCircles ==
    ASSUME HandleTypeOK, TreeLinks, NoCircles, NEW t, NEW c \in Handle, NEW p, NEW m, NEW rdonly,
           Fits(p, m), NewHandle(t, c, p, m, rdonly)
    PROVE  NoCircles'
<1>1. PICK n \in Nat : \E b : Numbering(n, b)
  BY DEF NoCircles
<1>2. PICK b : Numbering(n, b)
  BY <1>1
<1> DEFINE d == [b EXCEPT ![c] = n + 1]
<1>3. d \in [Handle -> 0..(n + 1)]
  BY <1>2 DEF Numbering
<1>4. ASSUME NEW q \in Handle, NEW x \in Children(q)' PROVE d[q] < d[x]
  <2>1. q # c /\ (x \in Children(q) \/ x = c) /\ c \notin Children(q)
    BY <1>4, NewChildren
  <2>2. d[q] = b[q] /\ b[q] \in 0..n
    BY <1>2, <2>1 DEF Numbering
  <2>3. CASE x = c
    <3>1. d[x] = n + 1
      BY <1>2, <2>3 DEF Numbering
    <3> QED
      BY <2>2, <3>1
  <2>4. CASE x # c
    <3>1. x \in Children(q) /\ x \in Handle
      BY <2>1, <2>4 DEF Children
    <3>2. d[x] = b[x]
      BY <1>2, <2>4, <3>1 DEF Numbering
    <3> QED
      BY <1>2, <2>2, <3>1, <3>2 DEF Numbering
  <2> QED
    BY <2>3, <2>4
<1>5. Numbering(n + 1, d)'
  BY <1>3, <1>4 DEF Numbering
<1>6. n + 1 \in Nat
  OBVIOUS
<1> QED
  BY <1>5, <1>6 DEF NoCircles

\* So no step makes a circle.
LEMMA NextNoCircles ==
    IInv /\ TreeLinks /\ NoCircles /\ [HandleNext]_handleVars => NoCircles'
<1> SUFFICES ASSUME IInv, TreeLinks, NoCircles, [HandleNext]_handleVars PROVE NoCircles'
  OBVIOUS
<1>1. CASE UNCHANGED kids
  BY <1>1, FewerChildren DEF Children
<1>2. CASE HandleNext
  <2>1. PICK t \in Thread :
           \/ \E S \in SUBSET live, rdonly \in BOOLEAN :
                 /\ \A x \in S : Grants(t, x, rdonly)
                 /\ TakeLocks(t, S, rdonly) /\ UNCHANGED treeVars
           \/ \E h \in Handle, recurs \in BOOLEAN : DatUnlock(t, h, recurs)
           \/ \E c \in Handle, p \in Handle \cup {NoHandle}, n \in TopName \cup Name,
                 rdonly \in BOOLEAN : Fits(p, n) /\ NewHandle(t, c, p, n, rdonly)
           \/ \E h \in Handle, top \in Handle \cup {NoHandle} :
                 /\ Prunes(h, top)
                 /\ EraseHandles(Below(h), top) /\ stale' \subseteq TopName
           \/ UNCHANGED <<live, parent, kids, name, writer, readers>> /\ HandleTypeOK'
    BY <1>2, StepKinds DEF HandleNext
  <2>2. ASSUME NEW S, NEW top, EraseHandles(S, top), NEW p \in Handle
        PROVE  Children(p)' \subseteq Children(p)
    <3>1. CASE p \in S
      BY <2>2, <3>1 DEF EraseHandles, Children, ToSet
    <3>2. CASE p \notin S
      <4>1. kids'[p] = [i \in DOMAIN kids[p] |->
                           IF kids[p][i] = top THEN NoHandle ELSE kids[p][i]]
        BY <2>2, <3>2 DEF EraseHandles
      <4>2. ToSet(kids'[p]) \subseteq ToSet(kids[p]) \cup {NoHandle}
        BY <4>1 DEF ToSet
      <4> QED
        BY <4>2 DEF Children
    <3> QED
      BY <3>1, <3>2
  <2>3. ASSUME NEW h, NEW recurs, DatUnlock(t, h, recurs) PROVE UNCHANGED kids
    BY <2>3 DEF DatUnlock, treeVars
  <2>4. UNCHANGED treeVars => UNCHANGED kids
    BY DEF treeVars
  <2> QED
    BY <1>1, <2>1, <2>2, <2>3, <2>4, NewHandleNoCircles, FewerChildren DEF IInv
<1> QED
  BY <1>1, <1>2 DEF handleVars

\* What the query answers for h, given what it answered for the children.
Answer(t, f, h) ==
    LET own == Status(t, h)
        odd == {i \in DOMAIN kids[h] : kids[h][i] \in Handle /\ f[kids[h][i]] # own}
    IN  IF own = WriteOther \/ odd = {} THEN own
        ELSE IF f[kids[h][Min(odd)]] = WriteOther THEN WriteOther
        ELSE Mixed

\* Only the answers for the children matter.
LEMMA AnswerLocal ==
    ASSUME HandleTypeOK, NEW t, NEW f, NEW g, NEW h \in Handle,
           \A x \in Children(h) : f[x] = g[x]
    PROVE  Answer(t, f, h) = Answer(t, g, h)
<1> DEFINE own == Status(t, h)
           Odd(e) == {i \in DOMAIN kids[h] : kids[h][i] \in Handle /\ e[kids[h][i]] # own}
<1>1. \A i \in DOMAIN kids[h] : kids[h][i] \in Handle => f[kids[h][i]] = g[kids[h][i]]
  BY DEF Children, ToSet
<1>2. Odd(f) = Odd(g)
  BY <1>1
<1>3. CASE Odd(f) = {}
  BY <1>2, <1>3 DEF Answer
<1>4. CASE Odd(f) # {}
  <2>1. Len(kids[h]) \in Nat /\ DOMAIN kids[h] = 1..Len(kids[h])
    BY DEF HandleTypeOK
  <2>2. Min(Odd(f)) \in Odd(f)
    BY <1>4, <2>1, FirstPosition
  <2>3. f[kids[h][Min(Odd(f))]] = g[kids[h][Min(Odd(f))]]
    BY <1>1, <2>2
  <2> QED
    BY <1>2, <2>3 DEF Answer
<1> QED
  BY <1>3, <1>4

\* The query answers for every Handle.
LEMMA QueryDefined ==
    ASSUME HandleTypeOK, NoCircles, NEW t
    PROVE  \E f : f = [h \in Handle |-> Answer(t, f, h)]
<1>1. PICK n \in Nat : \E b : Numbering(n, b)
  BY DEF NoCircles
<1>2. PICK b : Numbering(n, b)
  BY <1>1
<1> DEFINE Upto(k, f) == /\ DOMAIN f = Handle
                         /\ \A h \in Handle : n - b[h] < k => f[h] = Answer(t, f, h)
           T == {k \in Nat : ~\E f : Upto(k, f)}
<1>3. \A h \in Handle : b[h] \in 0..n
  BY <1>2 DEF Numbering
<1>4. T = {}
  <2> SUFFICES ASSUME T # {} PROVE FALSE
    OBVIOUS
  <2>1. PICK k \in T : \A m \in T : k <= m
    BY LeastElement
  <2>2. k # 0
    <3>1. Upto(0, [h \in Handle |-> 0])
      BY <1>3
    <3> QED
      BY <2>1, <3>1
  <2>3. k - 1 \in Nat /\ k - 1 \notin T
    BY <2>1, <2>2
  <2>4. PICK f : Upto(k - 1, f)
    BY <2>3
  <2> DEFINE g == [h \in Handle |-> IF n - b[h] = k - 1 THEN Answer(t, f, h) ELSE f[h]]
  <2>5. ASSUME NEW h \in Handle, n - b[h] < k PROVE g[h] = Answer(t, g, h)
    <3>1. ASSUME NEW x \in Children(h) PROVE f[x] = g[x]
      <4>1. x \in Handle /\ b[h] < b[x]
        BY <1>2 DEF Children, Numbering
      <4>2. n - b[x] # k - 1
        BY <1>3, <2>1, <2>5, <4>1
      <4> QED
        BY <4>1, <4>2
    <3>2. Answer(t, f, h) = Answer(t, g, h)
      BY <3>1, AnswerLocal
    <3>3. g[h] = Answer(t, f, h)
      <4>1. CASE n - b[h] = k - 1
        BY <4>1
      <4>2. CASE n - b[h] # k - 1
        <5>1. n - b[h] < k - 1
          BY <1>3, <2>1, <2>5, <4>2
        <5> QED
          BY <2>4, <4>2, <5>1
      <4> QED
        BY <4>1, <4>2
    <3> QED
      BY <3>2, <3>3
  <2>6. Upto(k, g)
    BY <2>5
  <2> QED
    BY <2>1, <2>6
<1>5. n + 1 \in Nat
  OBVIOUS
<1>6. PICK f : Upto(n + 1, f)
  BY <1>4, <1>5
<1>7. \A h \in Handle : f[h] = Answer(t, f, h)
  BY <1>3, <1>6
<1> SUFFICES ASSUME TRUE PROVE \E e : e = [h \in Handle |-> Answer(t, e, h)]
  OBVIOUS
<1> DEFINE e == [h \in Handle |-> f[h]]
<1>8. \A h \in Handle : Answer(t, e, h) = Answer(t, f, h)
  <2>1. \A h \in Handle : \A x \in Children(h) : e[x] = f[x]
    BY DEF Children
  <2> HIDE DEF e
  <2> QED
    BY <2>1, AnswerLocal
<1>9. e = [h \in Handle |-> Answer(t, e, h)]
  BY <1>7, <1>8
<1> QED
  BY <1>9

\* So the answers satisfy the equation they are defined by.
LEMMA QueryAnswers ==
    ASSUME HandleTypeOK, NoCircles, NEW t
    PROVE  \A h \in Handle : TreeStatus(t)[h] = Answer(t, TreeStatus(t), h)
<1>1. TreeStatus(t) = CHOOSE f : f = [h \in Handle |-> Answer(t, f, h)]
  BY DEF TreeStatus, Answer
<1>2. TreeStatus(t) = [h \in Handle |-> Answer(t, TreeStatus(t), h)]
  BY <1>1, QueryDefined
<1> QED
  BY <1>2

\* An answer that says all is well is the status of every Handle below.
LEMMA AnswerSound ==
    ASSUME HandleTypeOK, NoCircles, NEW t, NEW h \in Handle,
           TreeStatus(t)[h] \in {WriteHere, ReadHere, Unlocked}, NEW x \in Below(h)
    PROVE  Status(t, x) = TreeStatus(t)[h]
<1> DEFINE v == TreeStatus(t)[h]
           S == {y \in Handle : TreeStatus(t)[y] = v}
<1>1. ASSUME NEW y \in S PROVE Status(t, y) = v /\ Children(y) \subseteq S
  <2> DEFINE odd == {i \in DOMAIN kids[y] :
                        kids[y][i] \in Handle /\ TreeStatus(t)[kids[y][i]] # Status(t, y)}
  <2>1. Answer(t, TreeStatus(t), y) = v
    BY QueryAnswers
  <2>2. v # WriteOther /\ v # Mixed
    BY DEF WriteHere, ReadHere, Unlocked, WriteOther, Mixed
  <2>3. Status(t, y) = v /\ odd = {}
    BY <2>1, <2>2 DEF Answer
  <2> QED
    BY <2>3 DEF Children, ToSet
<1>2. x \in S
  <2>1. h \in S /\ S \in SUBSET Handle
    OBVIOUS
  <2> QED
    BY <1>1, <2>1 DEF Below
<1> QED
  BY <1>1, <1>2

\* When the recursive query says that a tree is locked in one way, every Handle
\* in it is, for trees of any size and depth.
THEOREM QuerySound == HandleSpec => []TreeStatusSound
<1>1. HandleSpec => [](IInv /\ TreeLinks /\ NoCircles)
  BY InitInv, NextInv, InitLinks, NextLinks, InitNoCircles, NextNoCircles, PTL DEF HandleSpec
<1>2. IInv /\ TreeLinks /\ NoCircles => TreeStatusSound
  <2>1. IInv => live \subseteq Handle
    BY DEF IInv, HandleTypeOK
  <2> QED
    BY <2>1, AnswerSound DEF TreeStatusSound, IInv
<1> QED
  BY <1>1, <1>2, PTL
=============================================================================
