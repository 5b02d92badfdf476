------------------------------- MODULE Opening -------------------------------
(***************************************************************************)
(* Opening and creating one container file, step by step, in several        *)
(* threads: hdsOpen, hdsNew, and datAnnul of the locators they return.      *)
(*                                                                         *)
(* Each call on the registry (hdstrack2.c) is one step, as it holds the      *)
(* mutex of the hash table, and so is each call on HDF5.  Nothing holds      *)
(* these steps together.  Only primary locators of the top-level object      *)
(* matter here; locks are taken to be granted (module HandleLock has them).  *)
(*                                                                         *)
(* The program keeps to one rule: no thread annuls the last locator of the   *)
(* file, which closes it, while another is opening or creating it.           *)
(***************************************************************************)
EXTENDS Integers, FiniteSetsExt, Lists

CONSTANTS
    Opener,    \* threads
    OLoc,      \* blocks of memory for locators, by number
    OTree,     \* bound: the trees of Handles that can be made, by number
    NoOTree,   \* a locator that has no Handle yet, or the NULL pointer
    MaxMade    \* bound: the number of times the file is created

ASSUME OpeningAssumption ==
    OLoc \subseteq Nat /\ OTree \subseteq Nat /\ NoOTree \notin OTree /\ MaxMade \in Nat

VARIABLES
    disk,      \* the file that the path names: 0 if none, else when it was made
    made,      \* the number of files made so far
    inHdf5,    \* the files that HDF5 has open
    entry,     \* has the path an HdsFile in the hash table?
    primaries, \* its list of primary locators
    tree,      \* tree[l]: the tree that locator->handle is in
    refers,    \* refers[l]: the file that locator->file_id is for, or 0
    built,     \* the trees that are allocated
    held,      \* the locators that the program has
    call       \* call[t]: what the thread is doing

ovars == <<disk, made, inHdf5, entry, primaries, tree, refers, built, held, call>>

\* A call: where it is, its locator, the temporary one of hdsNew, the Handle it
\* has found, the file it opened or made, and, as history, the locators that
\* the program had when it began and has kept.
Idling == [pc |-> "idle", loc |-> {}, tmp |-> {}, found |-> NoOTree, file |-> 0,
           before |-> {}]
Busy(t) == call[t].pc # "idle"
Pending == UNION {call[t].loc \cup call[t].tmp : t \in Opener}
Unused == OLoc \ (held \cup Pending)
\* The trees that a locator or a call points to.  (A tree that is left allocated
\* but that nothing points to is made again, as a bound on the memory leaked.)
Reached == {tree[l] : l \in OLoc} \cup {call[t].found : t \in Opener}
FirstOf(S) == {x \in S : \A y \in S : x <= y}
NewTree == FirstOf(OTree \ Reached)

Goto(t, pc) == call' = [call EXCEPT ![t].pc = pc]
Finish(t) == call' = [call EXCEPT ![t] = Idling]

-----------------------------------------------------------------------------
(* hdstrack2.c *)

\* hds1RegLocator: a locator with no Handle goes to the head of the list.
RegLocator(l, file) ==
    /\ entry' = TRUE
    /\ primaries' = <<l>> \o primaries
    /\ refers' = [refers EXCEPT ![l] = file]
    /\ tree' = [tree EXCEPT ![l] = NoOTree]

\* Mutant: the locator at the head of the list, or else the last, is asked.
X_FindHandle ==
    LET heads == {primaries[i] : i \in {1, 2} \cap DOMAIN primaries}
    IN IF \E l \in heads : tree[l] # NoOTree
       THEN tree[CHOOSE l \in heads : tree[l] # NoOTree] ELSE NoOTree

\* hds1FindHandle: the tree of the first locator that has a Handle.
FindHandle ==
    LET with == {i \in DOMAIN primaries : tree[primaries[i]] # NoOTree}
    IN IF with = {} THEN NoOTree ELSE tree[primaries[Min(with)]]

\* hds1IsOpen
IsOpen == entry

\* Mutant: every locator frees its tree.
X_Dat1Annul(l) ==
    LET rest == Without(primaries, l) IN
    /\ primaries' = rest
    /\ refers' = [refers EXCEPT ![l] = 0]
    /\ tree' = [tree EXCEPT ![l] = NoOTree]
    /\ entry' = (entry /\ rest # <<>>)
    /\ inHdf5' = IF rest = <<>> THEN inHdf5 \ {refers[l]} ELSE inHdf5
    /\ built' = built \ {tree[l]}

\* dat1Annul, in one step: the last locator closes the file and frees its own
\* tree.
Dat1Annul(l) ==
    LET rest == Without(primaries, l) IN
    /\ primaries' = rest
    /\ refers' = [refers EXCEPT ![l] = 0]
    /\ tree' = [tree EXCEPT ![l] = NoOTree]
    /\ IF rest = <<>>
       THEN /\ entry' = FALSE
            /\ inHdf5' = inHdf5 \ {refers[l]}
            /\ built' = built \ {tree[l]}
       ELSE UNCHANGED <<entry, inHdf5, built>>

-----------------------------------------------------------------------------
(* hdsOpen *)

OpenBegin(t) ==
    /\ ~Busy(t)
    /\ \E l \in FirstOf(Unused) :
          call' = [call EXCEPT ![t] = [Idling EXCEPT !.pc = "open", !.loc = {l}, !.before = held]]
    /\ UNCHANGED <<disk, made, inHdf5, entry, primaries, tree, refers, built, held>>

\* H5Fopen
OpenFile(t) ==
    /\ call[t].pc = "open"
    /\ IF disk = 0 THEN Finish(t) /\ UNCHANGED inHdf5
       ELSE /\ inHdf5' = inHdf5 \cup {disk}
            /\ call' = [call EXCEPT ![t].pc = "register", ![t].file = disk]
    /\ UNCHANGED <<disk, made, entry, primaries, tree, refers, built, held>>

\* hds1RegLocator asks HDF5 for the path, and fails if the file has been closed.
OpenRegister(t) ==
    /\ call[t].pc = "register"
    /\ IF call[t].file \in inHdf5
       THEN /\ \E l \in call[t].loc : RegLocator(l, call[t].file)
            /\ Goto(t, "find")
       ELSE Finish(t) /\ UNCHANGED <<entry, primaries, refers, tree>>
    /\ UNCHANGED <<disk, made, inHdf5, built, held>>

OpenFind(t) ==
    /\ call[t].pc = "find"
    /\ call' = [call EXCEPT ![t].pc = "store", ![t].found = FindHandle]
    /\ UNCHANGED <<disk, made, inHdf5, entry, primaries, tree, refers, built, held>>

\* The Handle that was found, or a new one, is stored in the locator, which is
\* returned.
OpenStore(t) ==
    /\ call[t].pc = "store"
    /\ \E l \in call[t].loc, b \in IF call[t].found # NoOTree THEN {call[t].found} ELSE NewTree :
          /\ built' = IF call[t].found # NoOTree THEN built ELSE built \cup {b}
          /\ tree' = [tree EXCEPT ![l] = b]
          /\ held' = held \cup {l}
    /\ Finish(t)
    /\ UNCHANGED <<disk, made, inHdf5, entry, primaries, refers>>

-----------------------------------------------------------------------------
(* hdsNew *)

NewBegin(t) ==
    /\ ~Busy(t)
    /\ IF IsOpen THEN Finish(t)
       ELSE \E k \in FirstOf(Unused) : \E l \in FirstOf(Unused \ {k}) :
               /\ made + Cardinality({u \in Opener : call[u].pc = "create"}) < MaxMade
               /\ call' = [call EXCEPT ![t] = [Idling EXCEPT !.pc = "create", !.loc = {l}, !.tmp = {k}]]
    /\ UNCHANGED <<disk, made, inHdf5, entry, primaries, tree, refers, built, held>>

\* H5Fcreate truncates the file that there is, and fails if HDF5 has it open.
NewCreate(t) ==
    /\ call[t].pc = "create"
    /\ IF disk \in inHdf5 THEN Goto(t, "unlink") /\ UNCHANGED <<disk, made, inHdf5>>
       ELSE /\ made' = made + 1 /\ disk' = made + 1
            /\ inHdf5' = inHdf5 \cup {made + 1}
            /\ call' = [call EXCEPT ![t].pc = "registertmp", ![t].file = made + 1]
    /\ UNCHANGED <<entry, primaries, tree, refers, built, held>>

\* unlink, after a failure of H5Fcreate: whatever the path names is deleted.
NewUnlink(t) ==
    /\ call[t].pc = "unlink"
    /\ disk' = 0
    /\ Finish(t)
    /\ UNCHANGED <<made, inHdf5, entry, primaries, tree, refers, built, held>>

NewRegister(t) ==
    /\ call[t].pc = "registertmp"
    /\ \E k \in call[t].tmp : RegLocator(k, call[t].file)
    /\ Goto(t, "handle")
    /\ UNCHANGED <<disk, made, inHdf5, built, held>>

\* The Handle of the new object, whatever other threads have found meanwhile.
NewTopHandle(t) ==
    /\ call[t].pc = "handle"
    /\ \E k \in call[t].tmp, b \in NewTree :
          /\ built' = built \cup {b}
          /\ tree' = [tree EXCEPT ![k] = b]
    /\ Goto(t, "new")
    /\ UNCHANGED <<disk, made, inHdf5, entry, primaries, refers, held>>

\* dat1New makes the object and registers the locator, which has a Handle, or
\* fails.
NewObject(t) ==
    /\ call[t].pc = "new"
    /\ \/ \E l \in call[t].loc, k \in call[t].tmp :
             /\ primaries' = <<l>> \o primaries
             /\ refers' = [refers EXCEPT ![l] = call[t].file]
             /\ tree' = [tree EXCEPT ![l] = tree[k]]
             /\ Goto(t, "annul")
       \/ /\ call' = [call EXCEPT ![t].pc = "annul", ![t].loc = {}]
          /\ UNCHANGED <<primaries, refers, tree>>
    /\ UNCHANGED <<disk, made, inHdf5, entry, built, held>>

\* The temporary locator is annulled, and the name of the file is freed: no
\* file is deleted if dat1New failed.
NewReturn(t) ==
    /\ call[t].pc = "annul"
    /\ \E k \in call[t].tmp : Dat1Annul(k)
    /\ held' = held \cup call[t].loc
    /\ Finish(t)
    /\ UNCHANGED <<disk, made>>

-----------------------------------------------------------------------------
\* datAnnul, under the rule for the program.
OpeningAnnul(t) ==
    /\ ~Busy(t)
    /\ \E l \in held :
          /\ primaries = <<l>> => \A u \in Opener : ~Busy(u)
          /\ Dat1Annul(l)
          /\ held' = held \ {l}
          /\ call' = [u \in Opener |-> [call[u] EXCEPT !.before = @ \ {l}]]
    /\ UNCHANGED <<disk, made>>

OInit ==
    /\ disk = 0 /\ made = 0 /\ inHdf5 = {}
    /\ entry = FALSE /\ primaries = <<>>
    /\ tree = [l \in OLoc |-> NoOTree]
    /\ refers = [l \in OLoc |-> 0]
    /\ built = {} /\ held = {}
    /\ call = [t \in Opener |-> Idling]

ONext ==
    \E t \in Opener :
        \/ OpenBegin(t) \/ OpenFile(t) \/ OpenRegister(t) \/ OpenFind(t) \/ OpenStore(t)
        \/ NewBegin(t) \/ NewCreate(t) \/ NewUnlink(t) \/ NewRegister(t) \/ NewTopHandle(t)
        \/ NewObject(t) \/ NewReturn(t) \/ OpeningAnnul(t)

OSpec == OInit /\ [][ONext]_ovars

-----------------------------------------------------------------------------
(* Properties *)

\* A locator that a program has is registered, for a file that HDF5 has open,
\* and its Handle exists, however the calls of other threads come in between
\* (hdsOpen, hdsNew, hds1FindHandle, dat1Annul).
HeldUsable ==
    /\ \A l \in held : /\ l \in ToSet(primaries)
                       /\ refers[l] \in inHdf5
                       /\ tree[l] \in built
    /\ primaries # <<>> => entry

\* "If the file was already open via another locator, we will re-use the
\* top-level handle associated with that locator": hdsOpen makes no tree of its
\* own if the program had a locator of the file all through the call, whatever
\* locators without a Handle other threads have put in front of it.
ReopenedShares ==
    [][\A t \in Opener : OpenStore(t) /\ call[t].before # {} =>
                       \A l \in call[t].loc : tree'[l] \in Reached]_ovars
=============================================================================
