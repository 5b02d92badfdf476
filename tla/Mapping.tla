------------------------------ MODULE Mapping ------------------------------
(***************************************************************************)
(* Mapping a primitive into memory.                                         *)
(*                                                                         *)
(* datMap gives a program a pointer to the elements of a primitive: a       *)
(* buffer that datMap allocates and fills, or, when the file was opened     *)
(* read-only, the file itself (mmap).  datUnmap and datAnnul copy a buffer  *)
(* that was mapped for WRITE or UPDATE back with datPut, and do not report  *)
(* an error of that datPut.                                                 *)
(*                                                                         *)
(* The state is one primitive, its HDF5 datasets (datReset deletes the      *)
(* dataset and makes a new one), the locators to it, and the lock of its    *)
(* Handle as module RWLock describes it.  One action is one call.  The      *)
(* annuls that closing a container file makes are Annul steps.              *)
(***************************************************************************)
EXTENDS Integers, FiniteSets

CONSTANTS
    Thread, Loc,
    Cell,        \* the elements of the primitive
    Value,       \* what an element can hold
    Zero,        \* the value of an element nobody has written
    Unset,       \* the content of a dataset that has no storage yet
    NoThread,
    MaxDataset   \* bound: datasets made before datReset is left out

ASSUME MappingAssumption ==
    /\ Zero \in Value
    /\ Unset \notin [Cell -> Value]
    /\ NoThread \notin Thread
    /\ MaxDataset \in Nat \ {0}
    /\ IsFiniteSet(Cell) /\ Cell # {}

VARIABLES
    intent,      \* how the HDF5 file is open: "RDONLY", "RDWR", or "closed"
    linked,      \* the dataset that the primitive's name refers to
    data,        \* the content of every dataset, linked or not
    wr, rd,      \* threads with the read-write, a read-only lock
    loc,         \* the locators
    since        \* history: the thread that mapped a locator, while nothing
                 \* has happened that could take its mapping out of date

lockVars == <<wr, rd>>
vars == <<intent, linked, data, wr, rd, loc, since>>

Dataset == 1..MaxDataset
Writing == {"WRITE", "UPDATE"}
Buffer == UNION {[S -> Value] : S \in SUBSET Cell}

\* A locator: its dataset (0 once it is annulled), the selected elements, the
\* access mode of the mapping ("none": regpntr is NULL), the buffer, whether
\* the buffer is the file itself (pntr is not NULL), the flag uses_true_mmap,
\* and whether it was mapped as a scalar (ndims is 0).
Locator == [ds: 0..MaxDataset, sel: SUBSET Cell, slice: BOOLEAN,
            mode: {"none", "READ"} \cup Writing, buf: Buffer,
            mmapped: BOOLEAN, trueMmap: BOOLEAN, scalar: BOOLEAN]

Empty == [c \in {} |-> Zero]
Annulled == [ds |-> 0, sel |-> {}, slice |-> FALSE, mode |-> "none", buf |-> Empty,
             mmapped |-> FALSE, trueMmap |-> FALSE, scalar |-> FALSE]

\* A locator that refers to the elements S of dataset d and is not mapped.
Unmapped(d, S, slice) == [Annulled EXCEPT !.ds = d, !.sel = S, !.slice = slice]

Live(l) == loc[l].ds # 0
Mapped(l) == loc[l].mode # "none"

\* The part of a content or buffer b that lies in S.
Part(b, S) == [c \in S |-> b[c]]

\* A dataset of content d after the elements in b have been written: storage
\* is allocated for all elements, those not written get the fill value.
Overwrite(d, b) ==
    [c \in Cell |-> IF c \in DOMAIN b THEN b[c] ELSE IF d = Unset THEN Zero ELSE d[c]]

\* What the object holds for anyone who finds it by name.
Stored == data[linked]

-----------------------------------------------------------------------------
(* Locks: datLock, datUnlock and dat1ValidateLocator on the primitive *)

Holds(t, rdonly) == wr = {t} \/ (rdonly /\ t \in rd)

\* The checks made before loc[l] is used; the HDF5 file must be open too.
Usable(t, l, rdonly) == Live(l) /\ Holds(t, rdonly) /\ intent # "closed"

\* The mappings that stay up to date when t's lock changes to L.
KeepSince(t, canRead, canWrite) ==
    [l \in Loc |-> IF since[l] # t THEN since[l]
                   ELSE IF loc[l].mode \in Writing /\ ~canWrite THEN NoThread
                   ELSE IF ~canRead THEN NoThread
                   ELSE t]

LockRead(t) ==
    /\ wr \subseteq {t}
    /\ wr' = {}
    /\ rd' = rd \cup {t}
    /\ since' = KeepSince(t, TRUE, FALSE)
    /\ UNCHANGED <<intent, linked, data, loc>>

\* Mutant: readers do not keep a writer out.
LockWrite_IgnoreReaders(t) ==
    /\ wr \subseteq {t}
    /\ wr' = {t}
    /\ rd' = {}
    /\ UNCHANGED <<intent, linked, data, loc, since>>

LockWrite(t) ==
    /\ wr \subseteq {t} /\ rd \subseteq {t}
    /\ wr' = {t}
    /\ rd' = {}
    /\ UNCHANGED <<intent, linked, data, loc, since>>

Unlock(t) ==
    /\ Holds(t, TRUE)
    /\ wr' = wr \ {t}
    /\ rd' = rd \ {t}
    /\ since' = KeepSince(t, FALSE, FALSE)
    /\ UNCHANGED <<intent, linked, data, loc>>

-----------------------------------------------------------------------------
(* Locators *)

\* datFind or datIndex: a new locator to the whole primitive.
Find(l) ==
    /\ intent # "closed" /\ ~Live(l)
    /\ loc' = [loc EXCEPT ![l] = Unmapped(linked, Cell, FALSE)]
    /\ UNCHANGED <<intent, linked, data, lockVars, since>>

\* datClone: the clone refers to the same dataset, but shares no mapping.
Clone(t, l, m) ==
    /\ Usable(t, l, TRUE) /\ ~Live(m)
    /\ loc' = [loc EXCEPT ![m] = Unmapped(loc[l].ds, loc[l].sel, loc[l].slice)]
    /\ UNCHANGED <<intent, linked, data, lockVars, since>>

\* datSlice: a clone that selects the elements S.
Slice(t, l, m, S) ==
    /\ Usable(t, l, TRUE) /\ ~Live(m)
    /\ S # {} /\ S \subseteq loc[l].sel
    /\ loc' = [loc EXCEPT ![m] = Unmapped(loc[l].ds, S, TRUE)]
    /\ UNCHANGED <<intent, linked, data, lockVars, since>>

-----------------------------------------------------------------------------
(* datPut and datReset *)

\* Mutant: any lock is enough to write.
PutSucceeds_AnyLock(t, l, b, scalar) ==
    /\ Usable(t, l, TRUE)
    /\ DOMAIN b = loc[l].sel /\ ~scalar
    /\ intent = "RDWR"

\* datPut(loc[l], b) by t succeeds: t may write, the dimensions of b are those
\* of the locator, and HDF5 can write to the file.
PutSucceeds(t, l, b, scalar) ==
    /\ Usable(t, l, FALSE)
    /\ DOMAIN b = loc[l].sel /\ ~scalar
    /\ intent = "RDWR"

\* When t itself changes the primitive, what it has mapped for READ is no
\* longer what is stored.
OutdateReads(t) ==
    [l \in Loc |-> IF since[l] = t /\ loc[l].mode = "READ" THEN NoThread ELSE since[l]]

Put(t, l, b) ==
    /\ PutSucceeds(t, l, b, FALSE)
    /\ data' = [data EXCEPT ![loc[l].ds] = Overwrite(@, b)]
    /\ since' = OutdateReads(t)
    /\ UNCHANGED <<intent, linked, lockVars, loc>>

\* datReset deletes the dataset and links a new one under its name.  Only the
\* locator it is given moves to the new dataset, all of which it selects: the
\* dataspace is replaced, the flag isslice is not.  A dataset that is not
\* linked has no name, and the search for its parent fails.
Reset(t, l) ==
    /\ Usable(t, l, FALSE)
    /\ intent = "RDWR"
    /\ loc[l].ds = linked
    /\ linked < MaxDataset
    /\ linked' = linked + 1
    /\ loc' = [loc EXCEPT ![l].ds = linked + 1, ![l].sel = Cell]
    /\ since' = [m \in Loc |-> NoThread]
    /\ UNCHANGED <<intent, data, lockVars>>

-----------------------------------------------------------------------------
(* datMap, the program's use of the buffer, and datUnmap *)

\* Can the file itself be mapped?  HDF5 must know the dataset's offset, the
\* types must agree and mmap must work: these are left open.
MayMmap(l) == ~loc[l].slice /\ intent = "RDONLY"

\* What the program finds in the buffer: the file's own bytes, a copy made by
\* datGet, or the zeroes of calloc.
Filled(l, mode) ==
    IF mode = "WRITE" THEN [c \in loc[l].sel |-> Zero]
    ELSE Part(data[loc[l].ds], loc[l].sel)

\* The mapped state that datMap leaves in a locator.  uses_true_mmap is set
\* when the file is mapped; nothing resets it.
SetMapping(l, mode, b, direct, scalar) ==
    loc' = [loc EXCEPT ![l] =
              [loc[l] EXCEPT !.mode = mode, !.buf = b, !.mmapped = direct,
                             !.trueMmap = loc[l].trueMmap \/ direct, !.scalar = scalar]]

\* t maps loc[l].  datMap does not ask whether it is mapped already.  UPDATE
\* has the READ bit set (HDSMODE_UPDATE is 3), so that a read-only lock is
\* enough for it.  A one-element array may be mapped as a scalar; the datGet
\* that fills the buffer refuses that, calloc (WRITE) does not.
Map(t, l, mode, direct, scalar) ==
    /\ Usable(t, l, mode # "WRITE")
    /\ mode # "WRITE" => data[loc[l].ds] # Unset
    /\ mode \in Writing => intent # "RDONLY"
    /\ scalar => Cardinality(loc[l].sel) = 1
    /\ direct => MayMmap(l)
    /\ scalar => direct \/ mode = "WRITE"
    /\ SetMapping(l, mode, Filled(l, mode), direct, scalar)
    /\ since' = [since EXCEPT ![l] =
                    IF loc[l].ds # linked THEN NoThread
                    ELSE IF mode \in Writing /\ (loc[l].trueMmap \/ scalar \/ wr # {t})
                    THEN NoThread
                    ELSE t]
    /\ UNCHANGED <<intent, linked, data, lockVars>>

\* The program stores v in the buffer.  Memory mapped from a file that is open
\* read-only is protected against that.
Modify(l, c, v) ==
    /\ Mapped(l) /\ ~loc[l].mmapped
    /\ c \in DOMAIN loc[l].buf
    /\ loc' = [loc EXCEPT ![l].buf[c] = v]
    /\ since' = [since EXCEPT ![l] = IF loc[l].mode = "READ" THEN NoThread ELSE @]
    /\ UNCHANGED <<intent, linked, data, lockVars>>

\* The validation at the head of datUnmap: UPDATE needs only a read-only lock.
UnmapAllowed(t, l) == Live(l) /\ Holds(t, loc[l].mode # "WRITE")

\* Mutant: UPDATE mappings are not copied back.
CopiedBack_WriteOnly(t, l) ==
    /\ UnmapAllowed(t, l)
    /\ loc[l].mode = "WRITE"
    /\ ~loc[l].trueMmap
    /\ PutSucceeds(t, l, loc[l].buf, loc[l].scalar)

\* datUnmap copies the buffer back unless uses_true_mmap is set; an error of
\* datPut is annulled.
CopiedBack(t, l) ==
    /\ UnmapAllowed(t, l)
    /\ loc[l].mode \in Writing
    /\ ~loc[l].trueMmap
    /\ PutSucceeds(t, l, loc[l].buf, loc[l].scalar)

CopyBack(t, l) ==
    IF CopiedBack(t, l)
    THEN /\ data' = [data EXCEPT ![loc[l].ds] = Overwrite(@, loc[l].buf)]
         /\ since' = [OutdateReads(t) EXCEPT ![l] = NoThread]
    ELSE /\ since' = [since EXCEPT ![l] = NoThread]
         /\ UNCHANGED data

Unmap(t, l) ==
    /\ Mapped(l) /\ UnmapAllowed(t, l)
    /\ CopyBack(t, l)
    /\ loc' = [loc EXCEPT ![l] =
                 [loc[l] EXCEPT !.mode = "none", !.buf = Empty,
                                !.mmapped = FALSE, !.scalar = FALSE]]
    /\ UNCHANGED <<intent, linked, lockVars>>

\* dat1Anloc: unmap, whether or not that is allowed, and clear the locator.
Annul(t, l) ==
    /\ Live(l)
    /\ CopyBack(t, l)
    /\ loc' = [loc EXCEPT ![l] = Annulled]
    /\ UNCHANGED <<intent, linked, lockVars>>

-----------------------------------------------------------------------------
(* hdsOpen for UPDATE of a file that is open read-only (dat1Reopen) *)

\* Close the file and open it again; the locators find their datasets again.
\* If one of them is mapped this is an error, but the HDF5 file is closed
\* all the same, under the locators.  It stays closed, too, if it cannot be
\* opened for writing or a locator to another object is mapped.
Reopen ==
    /\ intent = "RDONLY"
    /\ intent' \in {"RDWR", "closed"}
    /\ intent' = "RDWR" => \A l \in Loc : ~Mapped(l)
    /\ UNCHANGED <<linked, data, lockVars, loc, since>>

-----------------------------------------------------------------------------
Init ==
    /\ intent \in {"RDONLY", "RDWR"}
    /\ linked = 1
    /\ \E d \in [Cell -> Value] \cup {Unset} :
          data = [i \in Dataset |-> IF i = 1 THEN d ELSE Unset]
    /\ wr = {} /\ rd = {}
    /\ loc = [l \in Loc |-> Annulled]
    /\ since = [l \in Loc |-> NoThread]

Lock(t) == LockRead(t) \/ LockWrite(t) \/ Unlock(t)

Derive(t) ==
    \E l, m \in Loc : \/ Clone(t, l, m)
                      \/ \E S \in SUBSET Cell : Slice(t, l, m, S)

Store(t) ==
    \E l \in Loc : \/ \E b \in [loc[l].sel -> Value] : Put(t, l, b)
                   \/ Reset(t, l)

UseMapping(t) ==
    \E l \in Loc :
       \/ \E mode \in {"READ"} \cup Writing, direct, scalar \in BOOLEAN :
             Map(t, l, mode, direct, scalar)
       \/ Unmap(t, l)
       \/ Annul(t, l)

Next ==
    \/ \E t \in Thread : Lock(t) \/ Derive(t) \/ Store(t) \/ UseMapping(t)
    \/ \E l \in Loc : Find(l) \/ \E c \in Cell, v \in Value : Modify(l, c, v)
    \/ Reopen

Spec == Init /\ [][Next]_vars

-----------------------------------------------------------------------------
(* Properties *)

\* Why the two properties below hold: while "since" names a thread, that
\* thread has the lock the mapping needs, the locator refers to the linked
\* dataset, a READ mapping shows it, and the copy-back of a WRITE or UPDATE
\* mapping would succeed.
SinceJustified ==
    \A l \in Loc : since[l] # NoThread =>
        /\ Mapped(l) /\ loc[l].ds = linked
        /\ Holds(since[l], loc[l].mode = "READ")
        /\ loc[l].mode = "READ" => loc[l].buf = Part(Stored, loc[l].sel)
        /\ loc[l].mode \in Writing => /\ ~loc[l].trueMmap /\ ~loc[l].scalar
                                     /\ intent = "RDWR"
                                     /\ DOMAIN loc[l].buf = loc[l].sel

\* Type invariant.  It also says that at most one thread has the read-write
\* lock and then nobody has another (dat1HandleLock), that a live locator
\* selects something, and that a buffer exists exactly while it is mapped.
TypeOK ==
    /\ intent \in {"RDONLY", "RDWR", "closed"}
    /\ linked \in Dataset
    /\ data \in [Dataset -> [Cell -> Value] \cup {Unset}]
    /\ wr \in SUBSET Thread /\ rd \in SUBSET Thread
    /\ wr = {} \/ (rd = {} /\ \E t \in Thread : wr = {t})
    /\ loc \in [Loc -> Locator]
    /\ \A l \in Loc : /\ Live(l) <=> loc[l].sel # {}
                      /\ Mapped(l) <=> DOMAIN loc[l].buf # {}
                      /\ Mapped(l) => Live(l)
    /\ since \in [Loc -> Thread \cup {NoThread}]

\* The buffer of a READ mapping shows what the object holds for as long as the
\* thread that mapped it keeps a lock and neither it nor the program changes
\* the data: locks shut out every other writer, including the copy-back of
\* another thread's mapping and datReset (datMap, datUnmap, datPut, datReset).
ReadMappingCurrent ==
    \A l \in Loc : (since[l] # NoThread /\ loc[l].mode = "READ") =>
        loc[l].buf = Part(Stored, loc[l].sel)

\* What the program left in the buffer of a WRITE or UPDATE mapping is stored
\* when the mapping thread unmaps or annuls the locator, provided it has kept
\* its read-write lock, nobody has reset the object, the locator was never
\* mapped straight from the file, and an array was not mapped as a scalar
\* (the copy-back of datUnmap, called also by dat1Anloc).
KeptMappingStored ==
    [][\A t \in Thread, l \in Loc :
         (/\ since[l] = t /\ loc[l].mode \in Writing
          /\ Unmap(t, l) \/ Annul(t, l))
            => Part(Stored', loc[l].sel) = loc[l].buf]_vars

Abstract ==
    INSTANCE StoredArray WITH elements <- Stored

\* The mapping code keeps the promise of module StoredArray.
ImplementsStoredArray == Abstract!Spec
=============================================================================
