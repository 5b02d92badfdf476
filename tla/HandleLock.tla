----------------------------- MODULE HandleLock -----------------------------
(***************************************************************************)
(* The tree of Handles and the locks they carry.                            *)
(*                                                                         *)
(* A Handle stands for one HDF object known to the process.  All locators   *)
(* for the object point at the same Handle.  Each Handle has a list of its  *)
(* known components ("children"), at most one thread holding a read-write   *)
(* lock, and an array of the threads holding a read-only lock.              *)
(*                                                                         *)
(* One action is one call of the public function, made by one thread and    *)
(* run to its end: dat1HandleLock holds the mutex of the Handle it is given *)
(* for the whole call.  The mutexes of the Handles below it are not taken;  *)
(* module HandleLockSteps looks at what that allows.                        *)
(***************************************************************************)
EXTENDS Integers, FiniteSets, SequencesExt

CONSTANTS
    Thread,      \* the threads of the process
    Handle,      \* the blocks of memory a Handle can be allocated in
    TopName,     \* paths of container files
    Name,        \* names of components
    NoThread, NoHandle, NoName,
    LockCheck    \* the LOCKCHECK tuning parameter

ASSUME HandleLockAssumption ==
    /\ NoThread \notin Thread
    /\ NoHandle \notin Handle
    /\ NoName \notin TopName \cup Name
    /\ TopName \cap Name = {}
    /\ LockCheck \in BOOLEAN

VARIABLES
    live,        \* Handles whose "check" field points at themselves
    parent,      \* the Handle one level up, NoHandle for a top-level Handle
    kids,        \* the "children" array, which may hold NULL slots
    name,        \* the name within the parent
    docheck,     \* are locks checked before the object is used?
    writer,      \* the holder of the read-write lock (nwrite_lock, write_locker)
    readers,     \* the first nread_lock entries of "read_lockers"
    stale        \* open files whose remaining locators point at freed Handles

treeVars == <<live, parent, kids, name, docheck, stale>>
lockVars == <<writer, readers>>
handleVars == <<live, parent, kids, name, docheck, writer, readers, stale>>

-----------------------------------------------------------------------------
(* The tree below a Handle *)

\* The Handles visited by a recursive call of dat1HandleLock, in the order
\* in which it visits them: a Handle, then the subtree of each child.
Visit[h \in Handle] ==
    <<h>> \o FlattenSeq([i \in DOMAIN kids[h] |->
                            IF kids[h][i] \in Handle THEN Visit[kids[h][i]] ELSE <<>>])

Visited(h, recurs) == IF recurs THEN Visit[h] ELSE <<h>>

\* The components of p.
Children(p) == ToSet(kids[p]) \cap Handle

\* The Handle and everything below it: what is in every set of Handles that
\* has the Handle and, with a Handle, its components.
Below(h) ==
    {x \in Handle : \A S \in SUBSET Handle :
        h \in S /\ (\A y \in S : Children(y) \subseteq S) => x \in S}

\* Slots of a children array that hold no Handle.
EmptySlots(p) == {i \in DOMAIN kids[p] : kids[p][i] = NoHandle}

\* The child of p with a given name, as a set of zero or one Handle.
ChildNamed(p, n) ==
    {c \in live : name[c] = n /\ \E i \in DOMAIN kids[p] : kids[p][i] = c}

\* The top-level Handle of an open file, as a set of zero or one Handle.
TopNamed(n) == {h \in live : parent[h] = NoHandle /\ name[h] = n}

-----------------------------------------------------------------------------
(* Lock status: dat1HandleLock with oper = 1 *)

Unlocked == 0
WriteHere == 1     \* locked for writing by the calling thread
WriteOther == 2    \* locked for writing by another thread
ReadHere == 3      \* locked for reading by the calling thread, maybe others
ReadOther == 4     \* locked for reading by other threads only
Mixed == 5         \* recursive query only

Status(t, h) ==
    IF writer[h] # NoThread
    THEN IF writer[h] = t THEN WriteHere ELSE WriteOther
    ELSE IF readers[h] = <<>> THEN Unlocked
    ELSE IF t \in ToSet(readers[h]) THEN ReadHere ELSE ReadOther


\* Mutant: the query looks for a foreign writer only and ignores children
\* whose state differs in any other way.
TreeStatus_NoMix(t) ==
    LET result[h \in Handle] ==
          IF \E i \in DOMAIN kids[h] : /\ kids[h][i] \in Handle
                                      /\ result[kids[h][i]] = WriteOther
          THEN WriteOther ELSE Status(t, h)
    IN  result

\* The recursive query walks the children and stops at the first whose
\* result differs from that of the Handle itself.
TreeStatus(t) ==
    LET result[h \in Handle] ==
          LET own == Status(t, h)
              odd == {i \in DOMAIN kids[h] : /\ kids[h][i] \in Handle
                                             /\ result[kids[h][i]] # own}
          IN  IF own = WriteOther \/ odd = {} THEN own
              ELSE IF result[kids[h][Min(odd)]] = WriteOther THEN WriteOther
              ELSE Mixed
    IN  result

\* dat1ValidateLocator with checklock set: may t use h, for writing unless
\* rdonly is TRUE?
Validated(t, h, rdonly) ==
    /\ h \in live
    /\ LockCheck /\ docheck[h] =>
          Status(t, h) \in (IF rdonly THEN {WriteHere, ReadHere} ELSE {WriteHere})

-----------------------------------------------------------------------------
(* Taking and releasing locks: dat1HandleLock with oper = 2 and 3 *)


\* Mutant: promotion to a write lock forgets the test nread_lock == 1.
Grants_SharedPromotion(t, h, rdonly) ==
    IF rdonly THEN writer[h] \in {t, NoThread}
    ELSE \/ readers[h] = <<>> /\ writer[h] \in {t, NoThread}
         \/ t \in ToSet(readers[h])

\* Can t lock this one Handle?
Grants(t, h, rdonly) ==
    IF rdonly THEN writer[h] \in {t, NoThread}
    ELSE \/ readers[h] = <<>> /\ writer[h] \in {t, NoThread}
         \/ readers[h] = <<t>>

Holds(t, h) == Status(t, h) \in {WriteHere, ReadHere}

\* The Handles of a walk that come before the first refusal (or the first
\* Handle that fails dat1ValidateHandle).
BeforeRefusal(walk, Ok(_)) ==
    {h \in live :
        /\ Ok(h)
        /\ \E i \in DOMAIN walk :
              /\ walk[i] = h
              /\ \A j \in 1..(i - 1) : walk[j] \in live /\ Ok(walk[j])}

ToLock(t, h, recurs, rdonly) ==
    BeforeRefusal(Visited(h, recurs), LAMBDA x : Grants(t, x, rdonly))

ToUnlock(t, h, recurs) ==
    BeforeRefusal(Visited(h, recurs), LAMBDA x : Holds(t, x))


\* Mutant: the array is not searched for the thread before it is appended.
WithReader_Twice(t, x) ==
    IF writer[x] = t THEN <<t>> ELSE Append(readers[x], t)

\* The readers of x once t has a read-only lock: a write lock is demoted.
WithReader(t, x) ==
    IF writer[x] = t THEN <<t>>
    ELSE IF t \in ToSet(readers[x]) THEN readers[x]
    ELSE Append(readers[x], t)


\* Mutant: the later entries are not shuffled down, so the last reader is
\* dropped instead of the caller.
CloseGap_NoShuffle(r, at) == [i \in 1..(Len(r) - 1) |-> r[i]]

\* The array r without the entry in slot "at": later entries shuffle down.
CloseGap(r, at) ==
    [i \in 1..(Len(r) - 1) |-> IF i < at THEN r[i] ELSE r[i + 1]]

SlotOf(t, x) == CHOOSE i \in DOMAIN readers[x] : readers[x][i] = t

\* The readers of x without t.
WithoutReader(t, x) ==
    IF writer[x] = t THEN readers[x] ELSE CloseGap(readers[x], SlotOf(t, x))

\* Lock the Handles of S, each of which grants it.
TakeLocks(t, S, rdonly) ==
    /\ writer' = [x \in Handle |-> IF x \notin S THEN writer[x]
                                   ELSE IF rdonly THEN NoThread ELSE t]
    /\ readers' = [x \in Handle |-> IF x \notin S THEN readers[x]
                                    ELSE IF rdonly THEN WithReader(t, x) ELSE <<>>]

\* Unlock the Handles of S, each of which is held by t.
DropLocks(t, S) ==
    /\ writer' = [x \in Handle |-> IF x \in S THEN NoThread ELSE writer[x]]
    /\ readers' = [x \in Handle |-> IF x \in S THEN WithoutReader(t, x) ELSE readers[x]]

-----------------------------------------------------------------------------
(* Making and erasing Handles *)

\* dat1Handle: a new Handle c for the component n of p (or of the
\* file n when p is NoHandle), locked by t.
NewHandle(t, c, p, n, rdonly) ==
    /\ c \in Handle \ live
    /\ live' = live \cup {c}
    /\ parent' = [parent EXCEPT ![c] = p]
    /\ kids' = [x \in Handle |->
                  IF x # p THEN kids[x]
                  ELSE IF EmptySlots(p) = {} THEN Append(kids[p], c)
                  ELSE [kids[p] EXCEPT ![Max(EmptySlots(p))] = c]]
    /\ name' = [name EXCEPT ![c] = n]
    /\ docheck' = [docheck EXCEPT ![c] = TRUE]
    /\ writer' = [writer EXCEPT ![c] = IF rdonly THEN NoThread ELSE t]
    /\ readers' = [readers EXCEPT ![c] = IF rdonly THEN <<t>> ELSE <<>>]
    /\ UNCHANGED stale


\* Mutant: the slot in the parent's children array is not set to NULL.
EraseHandles_KeepSlot(S, top) ==
    /\ live' = live \ S
    /\ parent' = [x \in Handle |-> IF x \in S THEN NoHandle ELSE parent[x]]
    /\ kids' = [x \in Handle |-> IF x \in S THEN <<>> ELSE kids[x]]
    /\ name' = [x \in Handle |-> IF x \in S THEN NoName ELSE name[x]]
    /\ docheck' = [x \in Handle |-> docheck[x] /\ x \notin S]
    /\ writer' = [x \in Handle |-> IF x \in S THEN NoThread ELSE writer[x]]
    /\ readers' = [x \in Handle |-> IF x \in S THEN <<>> ELSE readers[x]]

\* dat1EraseHandle: free the Handles of S, clearing their memory, and take
\* the erased component out of its parent's children (top is NoHandle when
\* no parent has to forget it).
EraseHandles(S, top) ==
    /\ live' = live \ S
    /\ parent' = [x \in Handle |-> IF x \in S THEN NoHandle ELSE parent[x]]
    /\ kids' = [x \in Handle |->
                  IF x \in S THEN <<>>
                  ELSE [i \in DOMAIN kids[x] |->
                          IF kids[x][i] = top THEN NoHandle ELSE kids[x][i]]]
    /\ name' = [x \in Handle |-> IF x \in S THEN NoName ELSE name[x]]
    /\ docheck' = [x \in Handle |-> docheck[x] /\ x \notin S]
    /\ writer' = [x \in Handle |-> IF x \in S THEN NoThread ELSE writer[x]]
    /\ readers' = [x \in Handle |-> IF x \in S THEN <<>> ELSE readers[x]]

-----------------------------------------------------------------------------
(* The public functions *)

\* datLock: on a refusal the Handles locked so far stay locked.
DatLock(t, h, recurs, rdonly) ==
    /\ h \in live
    /\ TakeLocks(t, ToLock(t, h, recurs, rdonly), rdonly)
    /\ UNCHANGED treeVars

\* datUnlock
DatUnlock(t, h, recurs) ==
    /\ h \in live
    /\ DropLocks(t, ToUnlock(t, h, recurs))
    /\ UNCHANGED treeVars

\* datNolock
DatNolock(t, h) ==
    /\ h \in live
    /\ docheck' = [docheck EXCEPT ![h] = FALSE]
    /\ UNCHANGED <<live, parent, kids, name, writer, readers, stale>>

\* The lock taken on a component is of the sort the thread has on its parent.
Inherited(t, p) == Status(t, p) = ReadHere

\* datFind, datCell: the component n of p.  A Handle known already is locked
\* for the thread, or the call fails; otherwise a new one is made.
DatFind(t, p, n) ==
    /\ Validated(t, p, TRUE)
    /\ \/ \E c \in ChildNamed(p, n) :
            /\ Grants(t, c, Inherited(t, p))
            /\ TakeLocks(t, {c}, Inherited(t, p))
            /\ UNCHANGED treeVars
       \/ /\ ChildNamed(p, n) = {}
          /\ \E c \in Handle : NewHandle(t, c, p, n, Inherited(t, p))

\* datNew (dat1New): a component that does not exist yet.  The new Handle is
\* locked for reading only where locks are not checked at all.
DatNew(t, p, n) ==
    /\ Validated(t, p, FALSE)
    /\ ChildNamed(p, n) = {}
    /\ \E c \in Handle :
          NewHandle(t, c, p, n, docheck[p] /\ Status(t, p) # WriteHere)

\* datErase: only the lock on the parent is checked.
DatErase(t, p, n) ==
    /\ Validated(t, p, FALSE)
    /\ \E c \in ChildNamed(p, n) : EraseHandles(Below(c), c)
    /\ UNCHANGED stale

\* hdsOpen of a file that is not open yet.
OpenFirst(t, n, rdonly) ==
    /\ TopNamed(n) = {}
    /\ n \notin stale
    /\ \E h \in Handle : NewHandle(t, h, NoHandle, n, rdonly)

\* hdsOpen of a file that is open: the top-level Handle is shared.  A thread
\* that has a write lock keeps it.
OpenAgain(t, n, rdonly) ==
    \E h \in TopNamed(n) :
        LET ro == rdonly /\ Status(t, h) # WriteHere
        IN  /\ Grants(t, h, ro)
            /\ TakeLocks(t, {h}, ro)
            /\ UNCHANGED treeVars

\* hdsOpen of a file whose top-level object another thread has locked: the
\* clean-up after the error erases the shared Handle and its whole tree.
OpenRefused(t, n, rdonly) ==
    /\ \E h \in TopNamed(n) :
          /\ ~Grants(t, h, rdonly /\ Status(t, h) # WriteHere)
          /\ EraseHandles(Below(h), NoHandle)
    /\ stale' = stale \cup {n}

\* dat1Annul of the last primary locator of a file: no lock is checked.
LastAnnul(t, n) ==
    /\ \/ \E h \in TopNamed(n) : EraseHandles(Below(h), NoHandle)
       \/ n \in stale /\ UNCHANGED <<live, parent, kids, name, docheck, writer, readers>>
    /\ stale' = stale \ {n}

-----------------------------------------------------------------------------
HandleInit ==
    /\ live = {}
    /\ parent = [h \in Handle |-> NoHandle]
    /\ kids = [h \in Handle |-> <<>>]
    /\ name = [h \in Handle |-> NoName]
    /\ docheck = [h \in Handle |-> FALSE]
    /\ writer = [h \in Handle |-> NoThread]
    /\ readers = [h \in Handle |-> <<>>]
    /\ stale = {}

HandleNext == \E t \in Thread :
    \/ \E h \in Handle, recurs, rdonly \in BOOLEAN : DatLock(t, h, recurs, rdonly)
    \/ \E h \in Handle, recurs \in BOOLEAN : DatUnlock(t, h, recurs)
    \/ \E h \in Handle : DatNolock(t, h)
    \/ \E p \in Handle, n \in Name : DatFind(t, p, n)
    \/ \E p \in Handle, n \in Name : DatNew(t, p, n)
    \/ \E p \in Handle, n \in Name : DatErase(t, p, n)
    \/ \E n \in TopName, rdonly \in BOOLEAN : OpenFirst(t, n, rdonly)
    \/ \E n \in TopName, rdonly \in BOOLEAN : OpenAgain(t, n, rdonly)
    \/ \E n \in TopName, rdonly \in BOOLEAN : OpenRefused(t, n, rdonly)
    \/ \E n \in TopName : LastAnnul(t, n)

HandleSpec == HandleInit /\ [][HandleNext]_handleVars

-----------------------------------------------------------------------------
(* Properties *)

\* Types of the fields of a Handle; memory that holds no Handle is cleared.
HandleTypeOK ==
    /\ live \subseteq Handle
    /\ parent \in [Handle -> Handle \cup {NoHandle}]
    /\ kids \in [Handle -> Seq(Handle \cup {NoHandle})]
    /\ name \in [Handle -> TopName \cup Name \cup {NoName}]
    /\ docheck \in [Handle -> BOOLEAN]
    /\ writer \in [Handle -> Thread \cup {NoThread}]
    /\ readers \in [Handle -> Seq(Thread)]
    /\ stale \subseteq TopName

\* "Each Handle is always in one of three mutually exclusive states"
\* (dat1HandleLock): a Handle locked for writing has nobody in its array of
\* readers, and the array never holds a thread twice, so that unlocking once
\* is enough and a sole reader is recognised by nread_lock = 1.
LockStates ==
    \A h \in Handle :
        /\ writer[h] # NoThread => readers[h] = <<>>
        /\ \A i, j \in DOMAIN readers[h] : readers[h][i] = readers[h][j] => i = j
        /\ h \notin live => writer[h] = NoThread /\ readers[h] = <<>>

\* The links of the tree agree in both directions: a child's "parent" is the
\* Handle whose array it is in, it is there once, it is live, and no two
\* children of one Handle have the same name (dat1Handle and dat1EraseHandle).
TreeLinks ==
    \A p \in Handle :
        /\ \A i \in DOMAIN kids[p] : kids[p][i] # NoHandle =>
              /\ p \in live /\ kids[p][i] \in live
              /\ parent[kids[p][i]] = p
              /\ \A j \in DOMAIN kids[p] \ {i} : kids[p][j] # NoHandle =>
                    name[kids[p][j]] # name[kids[p][i]]
        /\ p \in live /\ parent[p] # NoHandle =>
              \E i \in DOMAIN kids[parent[p]] : kids[parent[p]][i] = p

\* A thread loses its lock on a Handle that stays only by its own datUnlock
\* that visits that Handle: not by another thread's promotion, array shuffle
\* or recursive call, and not by a datLock of its own that is refused part of
\* the way (dat1HandleLock).
LostOnlyByUnlock ==
    [][\A t \in Thread, h \in live \cap live' :
          Holds(t, h) /\ ~Holds(t, h)' =>
             \E g \in live, recurs \in BOOLEAN :
                h \in ToSet(Visited(g, recurs)) /\ DatUnlock(t, g, recurs)]_handleVars

\* datLocked with "recursive" answers 1 or 3 only when every Handle of the
\* tree is locked that way, so that a caller who relies on the answer may
\* use every component.
TreeStatusSound ==
    \A t \in Thread, h \in live :
        TreeStatus(t)[h] \in {WriteHere, ReadHere, Unlocked} =>
            \A x \in Below(h) : Status(t, x) = TreeStatus(t)[h]

Locks == INSTANCE RWLock WITH
    Object <- Handle, exists <- live,
    wr <- [h \in Handle |-> {writer[h]} \ {NoThread}],
    rd <- [h \in Handle |-> ToSet(readers[h])]

\* dat1HandleLock says that a request that conflicts with an existing lock
\* "is ignored": a thread whose hdsOpen is refused because another thread has
\* the file's top-level object locked must not change that Handle.
RefusedOpenIgnored ==
    [][\A t \in Thread, f \in TopName, rdonly \in BOOLEAN, h \in live :
          OpenRefused(t, f, rdonly) /\ TopNamed(f) = {h} => h \in live']_handleVars

\* The locks on Handles implement the abstract readers-writer locks: a
\* recursive call locks or unlocks a set of objects, each of which allows it.
ImplementsRWLock == Locks!Spec
=============================================================================
