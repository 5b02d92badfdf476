------------------------------ MODULE Registry ------------------------------
(***************************************************************************)
(* The registry of locators (hdstrack2.c) and the functions that make,      *)
(* change and annul locators.                                               *)
(*                                                                         *)
(* The hash table hdsFiles has an HdsFile structure for each container file *)
(* in use, with a linked list of its primary locators and another of its    *)
(* secondary locators.  When the last primary locator is annulled, all      *)
(* secondary ones are annulled too, the file is closed, its Handles are     *)
(* erased, and the file is deleted if the Handle of that last locator has   *)
(* its erase flag set.                                                      *)
(*                                                                         *)
(* One action is one call run to its end.  Locks are left out: module       *)
(* HandleLock has them.  The top-level objects are structures: hdsOpen does  *)
(* not survive opening a file that holds a primitive.                        *)
(***************************************************************************)
EXTENDS Integers, Lists

CONSTANTS
    File,          \* paths of container files
    Loc,           \* the blocks of memory a locator can be allocated in
    Tree,          \* the trees of Handles that can be made
    NoFile, NoTree,
    NamedAsFile,   \* the files whose top-level object is named after the file
    Demotable      \* the files whose last primary locator a caller may demote

ASSUME RegistryAssumption ==
    /\ NoFile \notin File
    /\ NoTree \notin Tree
    /\ NamedAsFile \subseteq File
    /\ Demotable \subseteq File

VARIABLES
    alloc,     \* locators the program has a pointer to
    file,      \* locator->hdsFile
    isprim,    \* locator->isprimary
    at,        \* locator->handle
    prim, sec, \* the lists of an HdsFile, from primhead and sechead on
    known,     \* files that have an entry in hdsFiles
    open,      \* files that HDF5 has open
    onDisk,    \* files that exist
    trees,     \* trees of Handles that are allocated
    flagged    \* Handles with the erase flag set

locVars == <<alloc, file, isprim, at>>
vars == <<alloc, file, isprim, at, prim, sec, known, open, onDisk, trees, flagged>>

\* A Handle: its tree and its place there.  "top" is the Handle made from the
\* file name (the HDF5 root group); "root" the one made by hdsNew for the
\* object it creates, a child of "top"; the others stand for the components
\* found by way of one or the other.
Kind == {"top", "root", "inTop", "inRoot"}
HandleSet == [tree : Tree, kind : Kind]
Nowhere == [tree |-> NoTree, kind |-> "top"]

\* A locator that is in a list.
Registered(l) == l \in alloc /\ file[l] # NoFile

\* datValid
Valid(l) == Registered(l) /\ at[l].tree \in trees

\* dat1IsTopLevel
IsTopLevel(l) ==
    \/ at[l].kind = "top"
    \/ at[l].kind = "root" /\ file[l] \in NamedAsFile

-----------------------------------------------------------------------------
(* hds1RegLocator and hds1UnregLocator *)


\* Mutant: secondary locators keep the file open.
LastPrimary_NoSecondary(l) == prim[file[l]] = <<l>> /\ sec[file[l]] = <<>>

\* hds1UnregLocator returns a non-zero value.
LastPrimary(l) == prim[file[l]] = <<l>>

\* A new locator l for the Handle h in f goes to the head of its list.
Register(l, f, h, p) ==
    /\ l \notin alloc
    /\ alloc' = alloc \cup {l}
    /\ file' = [file EXCEPT ![l] = f]
    /\ isprim' = [isprim EXCEPT ![l] = p]
    /\ at' = [at EXCEPT ![l] = h]
    /\ prim' = IF p THEN [prim EXCEPT ![f] = <<l>> \o @] ELSE prim
    /\ sec' = IF p THEN sec ELSE [sec EXCEPT ![f] = <<l>> \o @]

\* dat1Anloc: the locators of S are cleared.
ClearLocators(S) ==
    /\ file' = [l \in Loc |-> IF l \in S THEN NoFile ELSE file[l]]
    /\ isprim' = [l \in Loc |-> isprim[l] /\ l \notin S]
    /\ at' = [l \in Loc |-> IF l \in S THEN Nowhere ELSE at[l]]

-----------------------------------------------------------------------------
(* Annulling *)


\* Mutant: the secondary locators are dropped from their list but not annulled.
Cascade_Alone(l) == {l}

\* The locators annulled with the last primary locator l: those popped by
\* hds1PopSecLocator, and l.
Cascade(l) == {l} \cup ToSet(sec[file[l]])

\* dat1Annul of the last primary locator: the secondary locators are popped
\* and annulled, and the file is closed.
CloseFile(l, flags) ==
    LET f == file[l] IN
    /\ ClearLocators(Cascade(l))
    /\ prim' = [prim EXCEPT ![f] = <<>>]
    /\ sec' = [sec EXCEPT ![f] = <<>>]
    /\ known' = known \ {f}
    /\ open' = open \ {f}
    /\ onDisk' = IF at[l] \in flags THEN onDisk \ {f} ELSE onDisk
    /\ trees' = trees \ {at[l].tree}
    /\ flagged' = {h \in flags : h.tree # at[l].tree}

\* dat1Annul of any other registered locator.
Unregister(l, flags) ==
    LET f == file[l] IN
    /\ ClearLocators({l})
    /\ prim' = [prim EXCEPT ![f] = Without(@, l)]
    /\ sec' = [sec EXCEPT ![f] = Without(@, l)]
    /\ flagged' = flags
    /\ UNCHANGED <<known, open, onDisk, trees>>

\* dat1Annul
Annul(l, flags) ==
    IF LastPrimary(l) THEN CloseFile(l, flags) ELSE Unregister(l, flags)

\* datAnnul, hdsClose.  A locator that was annulled already, because its file
\* was closed, is only freed.
DatAnnul(l) ==
    /\ l \in alloc
    /\ alloc' = alloc \ {l}
    /\ IF Registered(l) THEN Annul(l, flagged)
       ELSE UNCHANGED <<file, isprim, at, prim, sec, known, open, onDisk, trees, flagged>>


\* Mutant: the flag is set only if the file is about to be closed.
HdsErase_FlagIfLast(l) ==
    /\ Valid(l)
    /\ IsTopLevel(l)
    /\ alloc' = alloc \ {l}
    /\ Annul(l, IF LastPrimary(l) THEN flagged \cup {at[l]} ELSE flagged)

\* hdsErase: the flag is set in the Handle of the locator supplied.
HdsErase(l) ==
    /\ Valid(l)
    /\ IsTopLevel(l)
    /\ alloc' = alloc \ {l}
    /\ Annul(l, flagged \cup {at[l]})

-----------------------------------------------------------------------------
(* Making locators *)

\* hdsNew: the temporary locator for the root group is annulled again before
\* the call ends, and is not the last primary locator then.
HdsNew(l, f) ==
    /\ f \notin known
    /\ \E t \in Tree \ trees :
          /\ Register(l, f, [tree |-> t, kind |-> "root"], TRUE)
          /\ trees' = trees \cup {t}
    /\ known' = known \cup {f}
    /\ open' = open \cup {f}
    /\ onDisk' = onDisk \cup {f}
    /\ UNCHANGED flagged


\* Mutant: a file that is open already is given a new tree of Handles.
TreeFor_New(f) == Tree \ trees

\* hds1FindHandle: the tree of the first primary locator, or else a new one.
TreeFor(f) ==
    IF prim[f] # <<>> THEN {at[prim[f][1]].tree} ELSE Tree \ trees

\* hdsOpen: a file that is open already keeps its tree of Handles.
HdsOpen(l, f) ==
    /\ f \in onDisk
    /\ \E t \in TreeFor(f) :
          /\ Register(l, f, [tree |-> t, kind |-> "top"], TRUE)
          /\ trees' = trees \cup {t}
    /\ known' = known \cup {f}
    /\ open' = open \cup {f}
    /\ UNCHANGED <<onDisk, flagged>>

\* A secondary locator l made from k, for a Handle of the same tree.
Derive(k, l, kind) ==
    /\ Valid(k)
    /\ Register(l, file[k], [tree |-> at[k].tree, kind |-> kind], FALSE)
    /\ UNCHANGED <<known, open, onDisk, trees, flagged>>

\* datClone, datSlice, datVec: another locator for the same Handle.
DatClone(k, l) == Derive(k, l, at[k].kind)

\* datFind, datCell, datIndex: a component.
DatFind(k, l) ==
    Derive(k, l, IF at[k].kind \in {"top", "inTop"} THEN "inTop" ELSE "inRoot")

\* datParen: the object that contains k.
DatParen(k, l) ==
    \/ at[k].kind = "inTop" /\ \E kind \in {"top", "inTop"} : Derive(k, l, kind)
    \/ at[k].kind = "inRoot" /\ \E kind \in {"root", "inRoot"} : Derive(k, l, kind)

-----------------------------------------------------------------------------
(* datPrmry with "set" true *)

Promote(l) ==
    /\ Registered(l) /\ ~isprim[l]
    /\ isprim' = [isprim EXCEPT ![l] = TRUE]
    /\ sec' = [sec EXCEPT ![file[l]] = Without(@, l)]
    /\ prim' = [prim EXCEPT ![file[l]] = <<l>> \o @]
    /\ UNCHANGED <<alloc, file, at, known, open, onDisk, trees, flagged>>

Demote(l) ==
    /\ Registered(l) /\ isprim[l] /\ ~LastPrimary(l)
    /\ isprim' = [isprim EXCEPT ![l] = FALSE]
    /\ prim' = [prim EXCEPT ![file[l]] = Without(@, l)]
    /\ sec' = [sec EXCEPT ![file[l]] = <<l>> \o @]
    /\ UNCHANGED <<alloc, file, at, known, open, onDisk, trees, flagged>>

\* The only primary locator becomes secondary.  dat1Annul then finds it at
\* the head of the secondary list and does not close the file.  The memory
\* of the locator is not freed.
DemoteOnly(l) ==
    /\ Registered(l) /\ file[l] \in Demotable /\ isprim[l] /\ LastPrimary(l)
    /\ ClearLocators({l})
    /\ prim' = [prim EXCEPT ![file[l]] = <<>>]
    /\ UNCHANGED <<alloc, sec, known, open, onDisk, trees, flagged>>

\* A locator that has been annulled is in no list: only its flag changes.
DatPrmryAnnulled(l) ==
    /\ l \in alloc /\ file[l] = NoFile
    /\ isprim' = [isprim EXCEPT ![l] = ~@]
    /\ UNCHANGED <<alloc, file, at, prim, sec, known, open, onDisk, trees, flagged>>

-----------------------------------------------------------------------------
Init ==
    /\ alloc = {}
    /\ file = [l \in Loc |-> NoFile]
    /\ isprim = [l \in Loc |-> FALSE]
    /\ at = [l \in Loc |-> Nowhere]
    /\ prim = [f \in File |-> <<>>]
    /\ sec = [f \in File |-> <<>>]
    /\ known = {}
    /\ open = {}
    /\ onDisk = {}
    /\ trees = {}
    /\ flagged = {}

Next ==
    \/ \E l \in Loc : DatAnnul(l) \/ HdsErase(l)
    \/ \E l \in Loc, f \in File : HdsNew(l, f) \/ HdsOpen(l, f)
    \/ \E k, l \in Loc : DatClone(k, l) \/ DatFind(k, l) \/ DatParen(k, l)
    \/ \E l \in Loc : Promote(l) \/ Demote(l) \/ DemoteOnly(l) \/ DatPrmryAnnulled(l)

Spec == Init /\ [][Next]_vars

-----------------------------------------------------------------------------
(* Properties *)

\* Types of the fields.
TypeOK ==
    /\ alloc \subseteq Loc
    /\ file \in [Loc -> File \cup {NoFile}]
    /\ isprim \in [Loc -> BOOLEAN]
    /\ at \in [Loc -> HandleSet \cup {Nowhere}]
    /\ prim \in [File -> Seq(Loc)]
    /\ sec \in [File -> Seq(Loc)]
    /\ known \subseteq File
    /\ open \subseteq File
    /\ onDisk \subseteq File
    /\ trees \subseteq Tree
    /\ flagged \subseteq HandleSet

\* Each registered locator is in the list its "isprimary" flag says, of the
\* file it points to, once, and the lists hold nothing else (hds1RegLocator,
\* hds1UnregLocator, datPrmry).  hds1UnregLocator reports anything else as an
\* internal error.
ListsAgree ==
    /\ \A f \in File :
          /\ ToSet(prim[f]) = {l \in alloc : file[l] = f /\ isprim[l]}
          /\ ToSet(sec[f]) = {l \in alloc : file[l] = f /\ ~isprim[l]}
          /\ IsInjective(prim[f]) /\ IsInjective(sec[f])
    /\ \A l \in Loc \ alloc : file[l] = NoFile

\* No locator in a list points into a closed file or to Handles that have
\* been freed, after any sequence of calls (dat1Annul).
NothingDangles ==
    \A l \in alloc : file[l] # NoFile => file[l] \in open /\ at[l].tree \in trees

\* hdsIsOpen, which looks in the hash table, answers for the HDF5 file.
KnownIsOpen == known = open

\* The files whose last primary locator is annulled, never demoted.
Kept == File \ Demotable

\* "once a file no longer has any primary locators associated with it the
\* file will be closed" (hdstrack2.c), and not before.
OpenIffPrimary == \A f \in Kept : f \in open <=> prim[f] # <<>>

\* The locators of a file all share one tree of Handles, so that they see the
\* same locks, and share it with no other file's (hdsOpen, dat1Annul).
OneTreePerFile ==
    \A k, l \in {m \in alloc : file[m] # NoFile} :
        IF file[k] = file[l] THEN file[k] \in Kept => at[k].tree = at[l].tree
                             ELSE at[k].tree # at[l].tree

Owned == INSTANCE ContainerFile WITH
    File <- Kept,
    isOpen <- open \cap Kept,
    owners <- [f \in Kept |-> ToSet(prim[f])],
    guests <- [f \in Kept |-> ToSet(sec[f])]

\* The registry implements files owned by their primary locators.
ImplementsContainerFile == Owned!Spec

\* "If the file was already open via another locator, we will re-use the
\* top-level handle associated with that locator": the locators that hdsNew and
\* hdsOpen return for the structure at the top of a file have one Handle.
OneTopHandle ==
    \A l, k \in alloc :
        Valid(l) /\ Valid(k) /\ file[l] = file[k]
          /\ at[l].kind \in {"top", "root"} /\ at[k].kind \in {"top", "root"}
        => at[l] = at[k]
=============================================================================
