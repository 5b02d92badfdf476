------------------------------- MODULE Hierarchy -------------------------------
(***************************************************************************)
(* The components of structures: the tree of HDF5 objects, the tree of      *)
(* Handles that shadows it, and the locators that point into both.          *)
(*                                                                         *)
(* A locator holds HDF5 identifiers, which follow an object that is moved   *)
(* or renamed, and a pointer to a Handle, which is found by name below the  *)
(* Handle of the parent and stays where it is.  The functions that change   *)
(* the hierarchy change the two trees separately.                           *)
(*                                                                         *)
(* One action is one call run to its end, made by a thread that has locked  *)
(* what it uses.  Structures are scalar; datCell is in module Shapes.  HDF5  *)
(* itself is modelled by what its link functions do to the tree.            *)
(***************************************************************************)
EXTENDS Integers, SequencesExt

CONSTANTS
    FileId,     \* the opens of container files: 1, 2, ...
    RootOf,     \* the top-level object of the file that was opened, 1, 2, ...
    MaxObject, MaxHandle, MaxLoc, MaxName,   \* bounds
    Careful     \* does the program keep to the rules below?

ASSUME HierarchyAssumption ==
    /\ \A m \in {MaxObject, MaxHandle, MaxLoc, MaxName} : m \in Nat
    /\ FileId \subseteq 1..MaxLoc
    /\ RootOf \in [FileId -> (1..MaxObject) \cap (1..MaxHandle)]
    /\ Careful \in BOOLEAN

\* Names are numbered in alphabetical order.
Name == 1..MaxName
None == 0
Root == {RootOf[i] : i \in FileId}

VARIABLES
    obj,       \* the HDF5 objects: the group each is in, its name there, its sort
    handle,    \* the live Handles: parent and name
    locs,      \* the locators: object, Handle and file_id
    renamed    \* the locators that datRenam was called with

hierarchyVars == <<obj, handle, locs, renamed>>

-----------------------------------------------------------------------------
(* Trees.  A tree is a function from nodes to records with fields up, name. *)

\* The function f with v for x.
Extended(f, x, v) == [y \in DOMAIN f \cup {x} |-> IF y = x THEN v ELSE f[y]]

\* The nodes from the top of the tree t down to x.
Chain(t, x) ==
    LET chain[y \in DOMAIN t] ==
          IF t[y].up \in DOMAIN t THEN Append(chain[t[y].up], y) ELSE <<y>>
    IN  chain[x]

\* The path of x: the top node, then names.
Path(t, x) ==
    LET c == Chain(t, x)
    IN  [i \in DOMAIN c |-> IF i = 1 THEN c[1] ELSE t[c[i]].name]

\* The subtree at x.
Below(t, x) == {y \in DOMAIN t : x \in ToSet(Chain(t, y))}

\* The node called n in x, as a set of zero or one node.
Child(t, x, n) == {y \in DOMAIN t : t[y].up = x /\ t[y].name = n}

\* Is the object in the hierarchy of a file (not in something erased)?
Linked(o) == o \in DOMAIN obj /\ Chain(obj, o)[1] \in Root

-----------------------------------------------------------------------------
(* HDF5 objects *)

\* H5Gcreate2, H5Dcreate2
Created(t, p, n, s) ==
    Extended(t, Min(1..MaxObject \ DOMAIN t), [up |-> p, name |-> n, isStruct |-> s])

\* H5Ldelete
Cut(t, o) == [t EXCEPT ![o].up = None]

\* H5Ocopy: everything in o is copied.
Copied(t, o, p, n) ==
    LET twin == CHOOSE m \in Injection(Below(t, o), 1..MaxObject \ DOMAIN t) : TRUE
        of == AntiFunction(twin)
    IN  [c \in DOMAIN t \cup Range(twin) |->
            IF c \in DOMAIN t THEN t[c]
            ELSE IF of[c] = o THEN [t[o] EXCEPT !.up = p, !.name = n]
            ELSE [t[of[c]] EXCEPT !.up = twin[@]]]

RoomFor(k) == Cardinality(1..MaxObject \ DOMAIN obj) >= k

\* HDF5 frees an object that is not in the hierarchy once no identifier for
\* it is open, and then takes apart what it holds.
InUse(t, l) ==
    LET keep == {o \in DOMAIN t : ToSet(Chain(t, o)) \cap (Root \cup {l[k].obj : k \in DOMAIN l}) # {}}
    IN  [o \in keep |-> IF t[o].up \in keep THEN t[o] ELSE [t[o] EXCEPT !.up = None]]

-----------------------------------------------------------------------------
(* Handles *)

\* Memory for a new Handle.  Freed memory that a locator still points at is
\* not handed out again here.
FreeHandle == 1..MaxHandle \ (DOMAIN handle \cup {locs[k].handle : k \in DOMAIN locs})

\* Mutant: the children are not searched for the name.
HandleFor_Always(p, n) == Min(FreeHandle)

\* dat1Handle: the child of p with that name, or else a new Handle.
HandleFor(p, n) ==
    IF Child(handle, p, n) # {} THEN CHOOSE c \in Child(handle, p, n) : TRUE
    ELSE Min(FreeHandle)

WithHandle(p, n) == Extended(handle, HandleFor(p, n), [up |-> p, name |-> n])

\* Mutant: the Handles below the one named are left alone.
EraseHandle_One(p, n) == Restrict(handle, DOMAIN handle \ Child(handle, p, n))

\* dat1EraseHandle: the child of p with that name, if it is known, and
\* everything below it.
EraseHandle(p, n) ==
    Restrict(handle, DOMAIN handle \ UNION {Below(handle, c) : c \in Child(handle, p, n)})

-----------------------------------------------------------------------------
(* Locators *)

FreeLoc == 1..MaxLoc \ DOMAIN locs

\* dat1AllocLoc and the assignments after it.
WithLoc(o, h, i) == Extended(locs, Min(FreeLoc), [obj |-> o, handle |-> h, fid |-> i])

\* dat1ValidateLocator
Valid(k) == k \in DOMAIN locs /\ locs[k].handle \in DOMAIN handle

\* A locator with a group_id, for an object that is in use.
Structure(k) == obj[locs[k].obj].isStruct

\* The rules of a careful program.  A locator that datRenam has been called
\* with is annulled and not used for anything else; an object is moved or
\* renamed through the only locator for it or anything in it.
MayUse(k) == Careful => k \notin renamed
MayMove(k) ==
    Careful => \A l \in DOMAIN locs \ {k} : locs[l].obj \notin Below(obj, locs[k].obj)

-----------------------------------------------------------------------------
(* The calls that look *)

\* datFind
DatFind(k, n) ==
    /\ Valid(k) /\ MayUse(k) /\ Structure(k)
    /\ FreeLoc # {} /\ FreeHandle # {}
    /\ \E c \in Child(obj, locs[k].obj, n) :
          /\ handle' = WithHandle(locs[k].handle, n)
          /\ locs' = WithLoc(c, HandleFor(locs[k].handle, n), locs[k].fid)
    /\ UNCHANGED <<obj, renamed>>

\* datIndex: the component that has i - 1 others before it.
DatIndex(k, i) ==
    \E n \in Name :
        /\ k \in DOMAIN locs
        /\ Cardinality({m \in 1..n : Child(obj, locs[k].obj, m) # {}}) = i
        /\ DatFind(k, n)

\* datClone
DatClone(k) ==
    /\ Valid(k) /\ MayUse(k) /\ FreeLoc # {}
    /\ locs' = WithLoc(locs[k].obj, locs[k].handle, locs[k].fid)
    /\ UNCHANGED <<obj, handle, renamed>>

\* datParen: the group HDF5 has the object in, and the parent of the Handle.
DatParen(k) ==
    /\ Valid(k) /\ MayUse(k) /\ FreeLoc # {}
    /\ Linked(locs[k].obj) /\ locs[k].obj \notin Root
    /\ locs' = WithLoc(obj[locs[k].obj].up, handle[locs[k].handle].up, locs[k].fid)
    /\ UNCHANGED <<obj, handle, renamed>>

\* datAnnul.  Each file is kept open by the locator that opened it.
DatAnnul(k) ==
    /\ k \in DOMAIN locs \ FileId
    /\ locs' = Restrict(locs, DOMAIN locs \ {k})
    /\ obj' = InUse(obj, locs')
    /\ renamed' = renamed \ {k}
    /\ UNCHANGED handle

-----------------------------------------------------------------------------
(* The calls that change the hierarchy *)

\* The name n is vacant in the structure k.
Vacant(k, n) == Structure(k) /\ Child(obj, locs[k].obj, n) = {}

\* datNew, which annuls the locator that dat1New makes.
DatNew(k, n, s) ==
    /\ Valid(k) /\ MayUse(k) /\ Vacant(k, n)
    /\ RoomFor(1) /\ FreeHandle # {}
    /\ obj' = Created(obj, locs[k].obj, n, s)
    /\ handle' = WithHandle(locs[k].handle, n)
    /\ UNCHANGED <<locs, renamed>>

\* datErase
DatErase(k, n) ==
    /\ Valid(k) /\ MayUse(k) /\ Structure(k)
    /\ \E c \in Child(obj, locs[k].obj, n) : obj' = InUse(Cut(obj, c), locs)
    /\ handle' = EraseHandle(locs[k].handle, n)
    /\ UNCHANGED <<locs, renamed>>

\* The object of k is in a group, and p is not in it.  HDF5 makes an object
\* that is moved into itself inaccessible.
Outside(k, p) ==
    /\ Linked(locs[k].obj)
    /\ locs[p].obj \notin Below(obj, locs[k].obj)

\* datCopy
DatCopy(k, p, n) ==
    /\ Valid(k) /\ MayUse(k) /\ Valid(p) /\ MayUse(p) /\ Vacant(p, n) /\ Outside(k, p)
    /\ RoomFor(Cardinality(Below(obj, locs[k].obj)))
    /\ obj' = Copied(obj, locs[k].obj, locs[p].obj, n)
    /\ UNCHANGED <<handle, locs, renamed>>

\* datCcopy: a structure is made anew, without what the other one holds.
DatCcopy(k, p, n) ==
    /\ Valid(k) /\ MayUse(k) /\ Valid(p) /\ MayUse(p) /\ Vacant(p, n)
    /\ Linked(locs[k].obj)
    /\ RoomFor(1) /\ FreeHandle # {} /\ FreeLoc # {}
    /\ obj' = Created(obj, locs[p].obj, n, Structure(k))
    /\ handle' = WithHandle(locs[p].handle, n)
    /\ locs' = WithLoc(Min(1..MaxObject \ DOMAIN obj), HandleFor(locs[p].handle, n), locs[p].fid)
    /\ UNCHANGED renamed

\* An object that has a group to be taken out of, and its Handle a parent.
Movable(k) ==
    /\ Valid(k) /\ MayUse(k) /\ MayMove(k)
    /\ Linked(locs[k].obj) /\ locs[k].obj \notin Root
    /\ handle[locs[k].handle].up \in DOMAIN handle

\* datMove where both locators have the same file_id: H5Lmove.  The Handle
\* stays where it is.
MoveLink(k, p, n) ==
    /\ obj' = InUse([obj EXCEPT ![locs[k].obj].up = locs[p].obj, ![locs[k].obj].name = n], locs')
    /\ UNCHANGED handle

\* Mutant: what was copied is not erased.
MoveCopy_KeepSource(k, p, n) ==
    LET o == locs[k].obj IN
    /\ RoomFor(Cardinality(Below(obj, o)))
    /\ obj' = InUse(Copied(obj, o, locs[p].obj, n), locs')
    /\ UNCHANGED handle

\* datMove otherwise, as when the file was opened twice: datCopy, and then
\* datErase through a locator for the parent.
MoveCopy(k, p, n) ==
    LET o == locs[k].obj IN
    /\ RoomFor(Cardinality(Below(obj, o)))
    /\ obj' = InUse(Cut(Copied(obj, o, locs[p].obj, n), o), locs')
    /\ handle' = EraseHandle(handle[locs[k].handle].up, obj[o].name)

\* The copy is made but datErase fails, as in a file that is open for reading
\* only or under a parent that the thread has not locked.
MoveHalf(k, p, n) ==
    /\ locs[k].fid # locs[p].fid
    /\ RoomFor(Cardinality(Below(obj, locs[k].obj)))
    /\ obj' = Copied(obj, locs[k].obj, locs[p].obj, n)
    /\ UNCHANGED <<handle, locs>>

\* datMove, which annuls the locator k unless there was an error.
DatMove(k, p, n) ==
    /\ k # p /\ k \notin FileId
    /\ Movable(k) /\ Valid(p) /\ MayUse(p) /\ Vacant(p, n) /\ Outside(k, p)
    /\ \/ /\ locs' = Restrict(locs, DOMAIN locs \ {k})
          /\ IF locs[k].fid = locs[p].fid THEN MoveLink(k, p, n) ELSE MoveCopy(k, p, n)
       \/ MoveHalf(k, p, n)
    /\ UNCHANGED renamed

\* Mutant: an existing component of that name is replaced.
DatRenam_Over(k, n) ==
    LET o == locs[k].obj
        p == handle[locs[k].handle].up
    IN  /\ k \notin FileId /\ Movable(k)
        /\ FreeHandle # {}
        /\ obj' = [obj EXCEPT ![o].name = n]
        /\ handle' = WithHandle(p, n)
        /\ renamed' = renamed \cup {k}
        /\ UNCHANGED locs

\* datRenam: datMove of a clone into the parent, then datFind, which may make
\* a Handle for the new name.  Only the identifiers are put into the locator
\* k: it keeps the Handle of the old name.
DatRenam(k, n) ==
    LET o == locs[k].obj
        p == handle[locs[k].handle].up
    IN  /\ k \notin FileId /\ Movable(k)
        /\ Child(obj, obj[o].up, n) = {}
        /\ FreeHandle # {}
        /\ obj' = [obj EXCEPT ![o].name = n]
        /\ handle' = WithHandle(p, n)
        /\ renamed' = renamed \cup {k}
        /\ UNCHANGED locs

-----------------------------------------------------------------------------
\* Each file has been opened with hdsOpen.
HierarchyInit ==
    /\ obj = [r \in Root |-> [up |-> None, name |-> None, isStruct |-> TRUE]]
    /\ handle = [r \in Root |-> [up |-> None, name |-> None]]
    /\ locs = [i \in FileId |-> [obj |-> RootOf[i], handle |-> RootOf[i], fid |-> i]]
    /\ renamed = {}

HierarchyNext ==
    \/ \E k \in 1..MaxLoc, n \in Name :
          \/ DatFind(k, n)
          \/ DatIndex(k, n)
          \/ DatErase(k, n)
          \/ DatRenam(k, n)
          \/ \E s \in BOOLEAN : DatNew(k, n, s)
    \/ \E k \in 1..MaxLoc : DatClone(k) \/ DatParen(k) \/ DatAnnul(k)
    \/ \E k, p \in 1..MaxLoc, n \in Name :
          DatCopy(k, p, n) \/ DatCcopy(k, p, n) \/ DatMove(k, p, n)

HierarchySpec == HierarchyInit /\ [][HierarchyNext]_hierarchyVars

-----------------------------------------------------------------------------
(* Properties *)

\* The locators a careful program goes on using.
Used == DOMAIN locs \ renamed

\* A locator passes the validity check exactly as long as its object is in the
\* hierarchy: erasing or moving a structure invalidates the locators to
\* everything that was in it and no others (datErase, dat1EraseHandle).
ValidIffLinked == \A k \in Used : Valid(k) <=> Linked(locs[k].obj)

\* "There can be multiple locators for the same object" (datUnlock): they all
\* share one Handle, and so one lock, and share it with no other object's,
\* however each was found and whatever was moved, copied or erased meanwhile.
OneHandleEach ==
    \A k, l \in Used :
        Valid(k) /\ Valid(l) => (locs[k].obj = locs[l].obj <=> locs[k].handle = locs[l].handle)

\* The objects as they are known to a user, by their paths.
ByPath ==
    [p \in {Path(obj, o) : o \in {x \in DOMAIN obj : Linked(x)}} |->
        \E o \in DOMAIN obj : obj[o].isStruct /\ Path(obj, o) = p]

Tree == INSTANCE ObjectTree WITH isStruct <- ByPath

\* Each call creates, deletes, copies or moves one component, with all that is
\* in it, and touches nothing else.
ImplementsObjectTree == Tree!Spec

PathOf(k) == Path(obj, locs[k].obj)
NewPath(p, n) == Append(PathOf(p), n)

\* Moving an object takes away the old one and leaves nothing behind, within
\* one file_id as well as between two; datRenam is a move within the parent;
\* datCopy leaves the source as it was and copies everything below it, and so
\* does a move that cannot erase what it has copied.
MovesAndCopies ==
    [][/\ \A k \in DOMAIN locs \ DOMAIN locs', p \in DOMAIN locs, n \in Name :
             DatMove(k, p, n) => ByPath' = Tree!MovedTo(ByPath, PathOf(k), NewPath(p, n))
       /\ \A k \in renamed' \ renamed, n \in Name :
             DatRenam(k, n) =>
                 ByPath' = Tree!MovedTo(ByPath, PathOf(k), Append(Front(PathOf(k)), n))
       /\ UNCHANGED <<locs, handle>> =>
             \A k, p \in DOMAIN locs, n \in Name :
                DatCopy(k, p, n) \/ DatMove(k, p, n) => ByPath' = Tree!CopiedTo(ByPath, PathOf(k), NewPath(p, n))]_hierarchyVars
=============================================================================
