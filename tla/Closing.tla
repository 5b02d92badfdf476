------------------------------ MODULE Closing ------------------------------
(***************************************************************************)
(* Annulling locators step by step: datAnnul, the cascade that closes a      *)
(* file, and the groups of locators (hdsgroups.c), in several threads.       *)
(*                                                                         *)
(* Two mutexes are involved.  The one of the registry (hdstrack2.c) is taken *)
(* and released inside single functions, which are single steps here.        *)
(* mutex1 of hdsgroups.c is held by hdsFlush while it annuls all locators of *)
(* a group, and taken by dat1Anloc for a locator that is in a group.         *)
(*                                                                         *)
(* The program keeps to one rule, NoConflict: threads do not use a locator   *)
(* that another is annulling, nor a file that another is closing.            *)
(***************************************************************************)
EXTENDS Threads, Integers, Lists

CONSTANTS
    File, Group,
    Loc,            \* blocks of memory for locators; none is used twice
    NoFile, NoLoc, NoGroup,
    FlushCloses     \* are groups flushed whatever files that closes?

ASSUME ClosingAssumption ==
    /\ NoFile \notin File /\ NoLoc \notin Loc /\ NoGroup \notin Group
    /\ FlushCloses \in BOOLEAN

VARIABLES
    mem,        \* "unused", "live", "cleared" by dat1Anloc, or "freed"
    file,       \* locator->hdsFile
    grp,        \* locator->grpname
    prim, sec,  \* the lists of an HdsFile
    known,      \* files with an HdsFile
    members,    \* the array of each group
    mutex,      \* the thread that holds mutex1
    run         \* what each thread is doing

locVars == <<mem, file, grp>>
vars == <<locVars, prim, sec, known, members, mutex, run>>

\* What a call touches: the locators it writes to and those it only uses, the
\* files of these, and the files it closes.
Footprint == [writes: SUBSET Loc, uses: SUBSET Loc, files: SUBSET File, closes: SUBSET File]
NoFoot == [writes |-> {}, uses |-> {}, files |-> {}, closes |-> {}]

\* A thread: where it is, the group it flushes or links to, the elements still
\* to flush, the argument of datAnnul, that of dat1Anloc, and the file that
\* dat1Annul is closing.
Idle == [pc |-> "idle", group |-> NoGroup, queue |-> <<>>, loc |-> NoLoc, target |-> NoLoc,
         closing |-> NoFile, foot |-> NoFoot]

At(t, where) == run[t].pc = where
Flushing(t) == run[t].group # NoGroup /\ ~At(t, "link")

-----------------------------------------------------------------------------
(* The rule for the program *)

Conflict(a, b) ==
    \/ a.writes \cap b.uses # {} \/ b.writes \cap a.uses # {}
    \/ a.closes \cap b.files # {} \/ b.closes \cap a.files # {}

NoConflict(t, foot) == \A u \in Thread \ {t} : ~Conflict(foot, run[u].foot)

FilesOf(S) == {file[l] : l \in S} \ {NoFile}

\* The files that are closed when the locators of S are annulled, next to
\* those that other threads are annulling.
ClosedWith(t, S) ==
    LET others == UNION {run[u].foot.writes : u \in Thread \ {t}}
    IN {f \in FilesOf(S) : prim[f] # <<>> /\ ToSet(prim[f]) \subseteq S \cup others}

AnnulFoot(t, S) ==
    LET closes == ClosedWith(t, S)
        all == S \cup UNION {ToSet(sec[f]) : f \in closes}
    IN [writes |-> all, uses |-> all, files |-> FilesOf(S), closes |-> closes]

\* When flushing g reaches the last primary locator of a file, no secondary
\* locator of that file is in a group any more.
FlushSafe(t, g) ==
    LET m == members[g]
        EndOf(f) == CHOOSE i \in DOMAIN m :
                       /\ m[i] \in ToSet(prim[f])
                       /\ \A j \in DOMAIN m : m[j] \in ToSet(prim[f]) => j <= i
    IN \A f \in ClosedWith(t, ToSet(m)) : \A l \in ToSet(sec[f]) :
          grp[l] # NoGroup => \E j \in DOMAIN m : m[j] = l /\ j < EndOf(f)

-----------------------------------------------------------------------------
(* Calls that make locators *)

\* hdsOpen: hds1RegLocator of a primary locator.
HdsOpen(t, l, f) ==
    LET foot == [NoFoot EXCEPT !.writes = {l}, !.uses = {l}, !.files = {f}] IN
    /\ At(t, "idle") /\ mem[l] = "unused" /\ NoConflict(t, foot)
    /\ mem' = [mem EXCEPT ![l] = "live"]
    /\ file' = [file EXCEPT ![l] = f]
    /\ prim' = [prim EXCEPT ![f] = <<l>> \o @]
    /\ known' = known \cup {f}
    /\ UNCHANGED <<grp, sec, members, mutex, run>>

\* datFind, datParen: a secondary locator, which is then linked to the group of
\* the locator k it was found through.
DatFind(t, k, l) ==
    LET foot == [NoFoot EXCEPT !.writes = {l}, !.uses = {k, l}, !.files = {file[k]}] IN
    /\ At(t, "idle") /\ mem[k] = "live" /\ mem[l] = "unused" /\ NoConflict(t, foot)
    /\ mem' = [mem EXCEPT ![l] = "live"]
    /\ file' = [file EXCEPT ![l] = file[k]]
    /\ sec' = [sec EXCEPT ![file[k]] = <<l>> \o @]
    /\ run' = IF grp[k] = NoGroup THEN run
              ELSE [run EXCEPT ![t] = [Idle EXCEPT !.pc = "link", !.loc = l,
                                                   !.group = grp[k], !.foot = foot]]
    /\ UNCHANGED <<grp, prim, known, members, mutex>>

-----------------------------------------------------------------------------
(* hdsLink *)

\* hds2Link, under mutex1: a locator that is in another group leaves it.
JoinGroup(l, g) ==
    /\ mutex = NoThread
    /\ grp' = [grp EXCEPT ![l] = g]
    /\ members' = IF grp[l] = g THEN members
                  ELSE [h \in Group |-> IF h = g THEN Append(members[h], l)
                                        ELSE Without(members[h], l)]
    /\ UNCHANGED <<mem, file, prim, sec, known, mutex>>

HdsLink(t, l, g) ==
    /\ At(t, "idle") /\ mem[l] = "live"
    /\ NoConflict(t, [NoFoot EXCEPT !.writes = {l}, !.uses = {l}, !.files = {file[l]}])
    /\ JoinGroup(l, g)
    /\ UNCHANGED run

LinkFound(t) ==
    /\ At(t, "link")
    /\ JoinGroup(run[t].loc, run[t].group)
    /\ run' = [run EXCEPT ![t] = Idle]

-----------------------------------------------------------------------------
(* datAnnul, called by the program or by hdsFlush *)

DatAnnul(t, l) ==
    LET foot == AnnulFoot(t, {l}) IN
    /\ At(t, "idle") /\ mem[l] \in {"live", "cleared"} /\ NoConflict(t, foot)
    /\ run' = [run EXCEPT ![t] = [Idle EXCEPT !.pc = "unregister", !.loc = l, !.foot = foot]]
    /\ UNCHANGED <<locVars, prim, sec, known, members, mutex>>

\* Mutant: secondary locators keep the file open.
LastPrimary_NoSecondary(l) ==
    file[l] # NoFile /\ prim[file[l]] = <<l>> /\ sec[file[l]] = <<>>

\* hds1UnregLocator returns a non-zero value.
LastPrimary(l) == file[l] # NoFile /\ prim[file[l]] = <<l>>

\* hds1UnregLocator: out of the lists.  A locator that was cleared is in none.
Unregister(t) ==
    LET l == run[t].loc IN
    /\ At(t, "unregister")
    /\ prim' = [f \in File |-> Without(prim[f], l)]
    /\ sec' = [f \in File |-> Without(sec[f], l)]
    /\ run' = [run EXCEPT ![t].pc = IF LastPrimary(l) THEN "pop" ELSE "ingroup",
                          ![t].target = l,
                          ![t].closing = IF LastPrimary(l) THEN file[l] ELSE NoFile]
    /\ UNCHANGED <<locVars, known, members, mutex>>

\* Mutant: only one secondary locator is popped.
Pop_One(t) ==
    LET f == run[t].closing
        some == sec[f] # <<>> /\ run[t].target = run[t].loc IN
    /\ At(t, "pop")
    /\ sec' = IF some THEN [sec EXCEPT ![f] = Tail(@)] ELSE sec
    /\ run' = [run EXCEPT ![t].pc = "ingroup",
                          ![t].target = IF some THEN Head(sec[f]) ELSE run[t].loc]
    /\ UNCHANGED <<locVars, prim, known, members, mutex>>

\* hds1PopSecLocator: the next secondary locator to annul, or at the end the
\* locator that datAnnul was called for.
Pop(t) ==
    LET f == run[t].closing
        some == sec[f] # <<>> IN
    /\ At(t, "pop")
    /\ sec' = IF some THEN [sec EXCEPT ![f] = Tail(@)] ELSE sec
    /\ run' = [run EXCEPT ![t].pc = "ingroup",
                          ![t].target = IF some THEN Head(sec[f]) ELSE run[t].loc]
    /\ UNCHANGED <<locVars, prim, known, members, mutex>>

\* hds1RemoveLocator looks at the name of the group before it asks for mutex1.
TestGroup(t) ==
    /\ At(t, "ingroup")
    /\ run' = [run EXCEPT ![t].pc = IF grp[run[t].target] = NoGroup THEN "clear" ELSE "leave"]
    /\ UNCHANGED <<locVars, prim, sec, known, members, mutex>>

\* Mutant: the locator stays in the array of its group.
LeaveGroup_Stay(t) ==
    /\ At(t, "leave") /\ mutex = NoThread
    /\ run' = [run EXCEPT ![t].pc = "clear"]
    /\ UNCHANGED <<locVars, prim, sec, known, members, mutex>>

\* hds2RemoveLocator
LeaveGroup(t) ==
    /\ At(t, "leave") /\ mutex = NoThread
    /\ members' = [g \in Group |-> IF g = grp[run[t].target]
                                   THEN Without(members[g], run[t].target) ELSE members[g]]
    /\ run' = [run EXCEPT ![t].pc = "clear"]
    /\ UNCHANGED <<locVars, prim, sec, known, mutex>>

\* The rest of dat1Anloc.
Clear(t) ==
    LET l == run[t].target IN
    /\ At(t, "clear")
    /\ mem' = [mem EXCEPT ![l] = "cleared"]
    /\ file' = [file EXCEPT ![l] = NoFile]
    /\ grp' = [grp EXCEPT ![l] = NoGroup]
    /\ run' = [run EXCEPT ![t].pc = IF l # run[t].loc THEN "pop"
                                    ELSE IF run[t].closing # NoFile THEN "close" ELSE "free"]
    /\ UNCHANGED <<prim, sec, known, members, mutex>>

\* dat1CloseAllIds and hds1FreeHdsFile: the lists go with the structure.
CloseFile(t) ==
    LET f == run[t].closing IN
    /\ At(t, "close")
    /\ known' = known \ {f}
    /\ prim' = [prim EXCEPT ![f] = <<>>]
    /\ sec' = [sec EXCEPT ![f] = <<>>]
    /\ run' = [run EXCEPT ![t].pc = "free", ![t].closing = NoFile]
    /\ UNCHANGED <<locVars, members, mutex>>

\* dat1FreeLoc, and back to hdsFlush or to the program.
FreeLoc(t) ==
    /\ At(t, "free")
    /\ mem' = [mem EXCEPT ![run[t].loc] = "freed"]
    /\ run' = [run EXCEPT ![t] = IF Flushing(t)
                                 THEN [run[t] EXCEPT !.pc = "next", !.loc = NoLoc, !.target = NoLoc]
                                 ELSE Idle]
    /\ UNCHANGED <<file, grp, prim, sec, known, members, mutex>>

-----------------------------------------------------------------------------
(* hdsFlush *)

\* Flushing a group that has no locators changes nothing, whether it exists or
\* not.
HdsFlush(t, g) ==
    LET foot == AnnulFoot(t, ToSet(members[g])) IN
    /\ At(t, "idle") /\ mutex = NoThread /\ members[g] # <<>>
    /\ NoConflict(t, foot)
    /\ FlushCloses \/ FlushSafe(t, g)
    /\ mutex' = t
    /\ run' = [run EXCEPT ![t] = [Idle EXCEPT !.pc = "next", !.group = g,
                                              !.queue = members[g], !.foot = foot]]
    /\ UNCHANGED <<locVars, prim, sec, known, members>>

\* Mutant: the name of the group stays in the locator.
NextElement_KeepName(t) ==
    /\ At(t, "next") /\ run[t].queue # <<>>
    /\ run' = [run EXCEPT ![t].pc = "unregister", ![t].loc = Head(run[t].queue),
                          ![t].queue = Tail(@)]
    /\ UNCHANGED <<mem, file, grp, prim, sec, known, members, mutex>>

\* Mutant: an element is skipped, as if the array had been shortened.
NextElement_Skip(t) ==
    LET l == Head(run[t].queue) IN
    /\ At(t, "next") /\ run[t].queue # <<>>
    /\ grp' = [grp EXCEPT ![l] = NoGroup]
    /\ run' = [run EXCEPT ![t].pc = "unregister", ![t].loc = l,
                          ![t].queue = IF Len(@) > 1 THEN Tail(Tail(@)) ELSE <<>>]
    /\ UNCHANGED <<mem, file, prim, sec, known, members, mutex>>

\* The group's name is taken out of the next locator, so that annulling it
\* does not ask for mutex1.
NextElement(t) ==
    LET l == Head(run[t].queue) IN
    /\ At(t, "next") /\ run[t].queue # <<>>
    /\ grp' = [grp EXCEPT ![l] = NoGroup]
    /\ run' = [run EXCEPT ![t].pc = "unregister", ![t].loc = l, ![t].queue = Tail(@)]
    /\ UNCHANGED <<mem, file, prim, sec, known, members, mutex>>

\* The array and the entry of the group are freed, and mutex1 is released.
FlushEnd(t) ==
    /\ At(t, "next") /\ run[t].queue = <<>>
    /\ members' = [members EXCEPT ![run[t].group] = <<>>]
    /\ mutex' = NoThread
    /\ run' = [run EXCEPT ![t] = Idle]
    /\ UNCHANGED <<locVars, prim, sec, known>>

-----------------------------------------------------------------------------
Init ==
    /\ mem = [l \in Loc |-> "unused"]
    /\ file = [l \in Loc |-> NoFile]
    /\ grp = [l \in Loc |-> NoGroup]
    /\ prim = [f \in File |-> <<>>]
    /\ sec = [f \in File |-> <<>>]
    /\ known = {}
    /\ members = [g \in Group |-> <<>>]
    /\ mutex = NoThread
    /\ run = [t \in Thread |-> Idle]

Call(t) ==
    \/ \E l \in Loc : \/ \E f \in File : HdsOpen(t, l, f)
                      \/ \E k \in Loc : DatFind(t, k, l)
                      \/ \E g \in Group : HdsLink(t, l, g)
                      \/ DatAnnul(t, l)
    \/ \E g \in Group : HdsFlush(t, g)

\* The thread is inside a call.
Inside(t) ==
    \/ LinkFound(t)
    \/ Unregister(t) \/ Pop(t) \/ TestGroup(t) \/ LeaveGroup(t) \/ Clear(t)
    \/ CloseFile(t) \/ FreeLoc(t)
    \/ NextElement(t) \/ FlushEnd(t)

Next == \E t \in Thread : Call(t) \/ Inside(t)

\* A thread that is in a call and not waiting goes on.
Fairness == \A t \in Thread : WF_vars(Inside(t))

Spec == Init /\ [][Next]_vars /\ Fairness

-----------------------------------------------------------------------------
(* Properties *)

BeingFlushed == {run[t].group : t \in {u \in Thread : Flushing(u)}}

\* The arrays of the groups and the names in the locators agree, except in the
\* group that is being flushed and for a locator that has just left its group:
\* no pointer to a locator that has been annulled stays behind for the next
\* flush, and no locator is lost to it (hdsLink, hdsFlush, dat1Anloc).
GroupsAgree ==
    /\ \A g \in Group : IsInjective(members[g])
    /\ \A g \in Group \ BeingFlushed, l \in Loc :
          /\ l \in ToSet(members[g]) => grp[l] = g /\ mem[l] = "live"
          /\ grp[l] = g => \/ l \in ToSet(members[g])
                           \/ \E t \in Thread : At(t, "clear") /\ run[t].target = l

\* No thread has a pointer to a locator that has been freed: not through the
\* array that hdsFlush walks, nor the list of secondary locators that
\* dat1Annul pops from, whatever other threads annul.
NothingFreed ==
    \A t \in Thread :
        \A l \in ToSet(run[t].queue) \cup ({run[t].loc, run[t].target} \ {NoLoc}) :
            mem[l] # "freed"

\* A locator that is not annulled belongs to a file that is open: the cascade
\* reaches every locator of the file, whatever group it is in and whatever
\* other threads annul meanwhile (dat1Annul).
LiveInOpenFile == \A l \in Loc : mem[l] = "live" => file[l] \in known

\* A thread never waits for mutex1 when it holds it: "clear the group
\* membership -- otherwise datAnnul will call back to the group code to try to
\* remove the locator" (hds2Flush).
NoSelfWait == \A t \in Thread : At(t, "leave") => mutex # t

\* At the end of hdsFlush every locator that was in the group has been
\* annulled and freed ("Annuls all locators currently assigned to a specified
\* locator group").
FlushComplete ==
    \A t \in Thread : (At(t, "next") /\ run[t].queue = <<>>) =>
        \A l \in ToSet(members[run[t].group]) : mem[l] = "freed"

Closing == {run[t].closing : t \in Thread} \ {NoFile}

Owned == INSTANCE ContainerFile WITH
    isOpen <- known \ Closing,
    owners <- [f \in File |-> IF f \in Closing THEN {} ELSE ToSet(prim[f])],
    guests <- [f \in File |-> IF f \in Closing THEN {} ELSE ToSet(sec[f])]

\* With its steps taken apart, and other threads in between, dat1Annul still
\* closes a file in one step for its users, who are all gone then.
ImplementsContainerFile == Owned!Spec

\* Every call returns.
CallsReturn == \A t \in Thread : run[t].pc # "idle" ~> run[t].pc = "idle"
=============================================================================
