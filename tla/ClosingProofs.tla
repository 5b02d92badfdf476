---------------------------- MODULE ClosingProofs ----------------------------
(***************************************************************************)
(* Proofs about Closing, for any threads, files, groups and locators, and    *)
(* whether or not groups are flushed that close files with secondary         *)
(* locators in groups.                                                       *)
(*                                                                         *)
(* What each thread has still to do is covered by its footprint, and the     *)
(* footprints do not conflict.  So the locators that a thread holds, and the *)
(* files it is going to close, are as it left them at its last step,         *)
(* whatever the others do; a file that no footprint closes keeps a primary   *)
(* locator that nobody is annulling.                                         *)
(***************************************************************************)
EXTENDS Closing, ListsProofs

USE ThreadAssumption, ClosingAssumption

-----------------------------------------------------------------------------
(* The inductive invariant *)

PcKind == {"idle", "link", "unregister", "pop", "ingroup", "leave", "clear", "close", "free",
           "next"}

Runs == [pc : PcKind, group : Group \cup {NoGroup}, queue : Seq(Loc), loc : Loc \cup {NoLoc},
         target : Loc \cup {NoLoc}, closing : File \cup {NoFile}, foot : Footprint]

ClosingTypeOK ==
    /\ mem \in [Loc -> {"unused", "live", "cleared", "freed"}]
    /\ file \in [Loc -> File \cup {NoFile}]
    /\ grp \in [Loc -> Group \cup {NoGroup}]
    /\ prim \in [File -> Seq(Loc)]
    /\ sec \in [File -> Seq(Loc)]
    /\ known \in SUBSET File
    /\ members \in [Group -> Seq(Loc)]
    /\ mutex \in Thread \cup {NoThread}
    /\ run \in [Thread -> Runs]

\* A thread annuls run[t].loc; it has taken it out of the lists; it is about to
\* annul run[t].target, which is that locator or one of the cascade.
Annulling(t) ==
    run[t].pc \in {"unregister", "pop", "ingroup", "leave", "clear", "close", "free"}
Unlisting(t) == run[t].pc \in {"pop", "ingroup", "leave", "clear"}
Targeting(t) == run[t].pc \in {"ingroup", "leave", "clear"}

\* What a thread keeps, by where it is.
PlaceOf(t) ==
    /\ At(t, "idle") => run[t] = Idle
    /\ At(t, "link") => /\ run[t].group # NoGroup /\ run[t].queue = <<>>
                        /\ run[t].loc # NoLoc /\ mem[run[t].loc] = "live"
                        /\ run[t].foot.closes = {}
    /\ At(t, "next") => run[t].group # NoGroup /\ run[t].loc = NoLoc
    /\ Annulling(t) => /\ run[t].loc # NoLoc
                       /\ run[t].group = NoGroup => run[t].queue = <<>>
    /\ Targeting(t) => /\ run[t].target # NoLoc
                       /\ run[t].target # run[t].loc => run[t].closing # NoFile
    /\ run[t].pc \in {"idle", "link", "unregister", "next"} => run[t].target = NoLoc
    /\ run[t].pc \in {"idle", "link", "unregister", "free", "next"} => run[t].closing = NoFile
    /\ run[t].pc \in {"pop", "close"} => run[t].closing # NoFile

\* The locators to which a thread has pointers.
Held(t) == ToSet(run[t].queue) \cup ({run[t].loc, run[t].target} \ {NoLoc})

FootOf(t) ==
    /\ run[t].foot.writes \subseteq run[t].foot.uses
    /\ run[t].foot.closes \subseteq run[t].foot.files
    /\ Held(t) \subseteq run[t].foot.writes
    /\ \A l \in run[t].foot.writes : file[l] \in run[t].foot.files \cup {NoFile}

Apart == \A t, u \in Thread : t # u => ~Conflict(run[t].foot, run[u].foot)

PointersOf(t) ==
    /\ IsInjective(run[t].queue)
    /\ run[t].loc \notin ToSet(run[t].queue)
    /\ At(t, "clear") => run[t].target \notin ToSet(run[t].queue)
    /\ \A l \in ToSet(run[t].queue) : mem[l] = "live" /\ grp[l] = run[t].group
    /\ \A l \in Held(t) : mem[l] \in {"live", "cleared"}
    /\ run[t].pc \in {"close", "free"} => mem[run[t].loc] = "cleared"

\* A locator that t has taken out of the lists and not annulled yet.
Unlisted(t, l) == \/ Unlisting(t) /\ l = run[t].loc
                  \/ Targeting(t) /\ l = run[t].target

Listed(f) == ToSet(prim[f]) \cup ToSet(sec[f])

ListsOf(f) ==
    /\ IsInjective(prim[f]) /\ IsInjective(sec[f])
    /\ ToSet(prim[f]) \cap ToSet(sec[f]) = {}
    /\ \A l \in Listed(f) : mem[l] = "live" /\ file[l] = f /\ \A t \in Thread : ~Unlisted(t, l)

LiveOne(l) ==
    mem[l] = "live" =>
        /\ file[l] \in known
        /\ l \in Listed(file[l]) \/ \E t \in Thread : Unlisted(t, l)

\* The file that t is closing has no primary locator left, and at the end no
\* secondary one.
CascadeOf(t) ==
    run[t].closing # NoFile =>
        /\ run[t].closing \in run[t].foot.closes \cap known
        /\ prim[run[t].closing] = <<>>
        /\ At(t, "close") \/ (Targeting(t) /\ run[t].target = run[t].loc)
              => sec[run[t].closing] = <<>>

\* The locators that t has still to take out of the lists.
Coming(t) == ToSet(run[t].queue) \cup (IF At(t, "unregister") THEN {run[t].loc} ELSE {})

\* The files that t will close have no other primary locators.
ToCloseOf(t) ==
    \A f \in run[t].foot.closes \cap known :
        /\ ToSet(sec[f]) \subseteq run[t].foot.writes
        /\ run[t].closing = f \/ (prim[f] # <<>> /\ ToSet(prim[f]) \subseteq Coming(t))

\* The other files keep a primary locator.
KeptOf(f) ==
    \/ \E t \in Thread : f \in run[t].foot.closes
    \/ \E p \in ToSet(prim[f]) : \A t \in Thread : p \notin run[t].foot.writes

\* A locator that is about to be annulled is in no group but the one that is
\* being flushed; of that one the locators are annulled or still to come.
FlushOf(t) ==
    /\ At(t, "clear") => \A g \in Group :
          run[t].target \in ToSet(members[g]) => Flushing(t) /\ run[t].group = g
    /\ Flushing(t) =>
          /\ mutex = t
          /\ ToSet(members[run[t].group]) \subseteq run[t].foot.writes
          /\ \A l \in ToSet(members[run[t].group]) :
                \/ l \in ToSet(run[t].queue) \/ mem[l] = "freed" \/ l = run[t].loc
          /\ \A l \in Loc : grp[l] = run[t].group =>
                \/ l \in ToSet(run[t].queue)
                \/ \E u \in Thread : At(u, "clear") /\ run[u].target = l

ThreadInv(t) ==
    PlaceOf(t) /\ FootOf(t) /\ PointersOf(t) /\ CascadeOf(t) /\ ToCloseOf(t)

IInv ==
    /\ ClosingTypeOK
    /\ Apart
    /\ \A t \in Thread : ThreadInv(t) /\ FlushOf(t)
    /\ \A f \in File : ListsOf(f)
    /\ \A f \in known : KeptOf(f)
    /\ \A l \in Loc : LiveOne(l)
    /\ GroupsAgree

-----------------------------------------------------------------------------
(* What a thread finds as it left it *)

\* What one thread writes to or closes, no other uses.
LEMMA FootsApart ==
    ASSUME IInv, NEW t \in Thread, NEW u \in Thread, t # u
    PROVE  /\ run[t].foot.writes \cap run[u].foot.uses = {}
           /\ run[u].foot.writes \cap run[t].foot.uses = {}
           /\ run[t].foot.closes \cap run[u].foot.files = {}
           /\ run[u].foot.closes \cap run[t].foot.files = {}
           /\ run[t].foot.writes \cap run[u].foot.writes = {}
           /\ run[t].foot.closes \cap run[u].foot.closes = {}
<1>1. ~Conflict(run[t].foot, run[u].foot)
  BY DEF IInv, Apart
<1>2. run[u].foot.writes \subseteq run[u].foot.uses /\ run[u].foot.closes \subseteq run[u].foot.files
  BY DEF IInv, ThreadInv, FootOf
<1> QED
  BY <1>1, <1>2 DEF Conflict

\* The types of the parts of what a thread is doing.
LEMMA RunTyped ==
    ASSUME ClosingTypeOK, NEW t \in Thread
    PROVE  /\ run[t] \in Runs
           /\ run[t].pc \in PcKind /\ run[t].group \in Group \cup {NoGroup}
           /\ run[t].queue \in Seq(Loc)
           /\ run[t].loc \in Loc \cup {NoLoc} /\ run[t].target \in Loc \cup {NoLoc}
           /\ run[t].closing \in File \cup {NoFile}
           /\ run[t].foot \in Footprint
           /\ run[t].foot.writes \subseteq Loc /\ run[t].foot.uses \subseteq Loc
           /\ run[t].foot.files \subseteq File /\ run[t].foot.closes \subseteq File
           /\ ToSet(run[t].queue) \subseteq Loc
<1>1. run[t] \in Runs
  BY DEF ClosingTypeOK
<1>2. /\ run[t].pc \in PcKind /\ run[t].group \in Group \cup {NoGroup}
      /\ run[t].queue \in Seq(Loc)
      /\ run[t].loc \in Loc \cup {NoLoc} /\ run[t].target \in Loc \cup {NoLoc}
      /\ run[t].closing \in File \cup {NoFile}
      /\ run[t].foot \in Footprint
  BY <1>1 DEF Runs
<1>3. /\ run[t].foot.writes \subseteq Loc /\ run[t].foot.uses \subseteq Loc
      /\ run[t].foot.files \subseteq File /\ run[t].foot.closes \subseteq File
  BY <1>2 DEF Footprint
<1>4. ToSet(run[t].queue) \subseteq Loc
  BY <1>2 DEF ToSet
<1> QED
  BY <1>1, <1>2, <1>3, <1>4

\* A thread is not disturbed by a step that leaves alone the locators it uses
\* and the files it closes.
LEMMA Undisturbed ==
    ASSUME IInv, NEW u \in Thread, run'[u] = run[u],
           \A l \in run[u].foot.uses :
               mem'[l] = mem[l] /\ file'[l] = file[l] /\ grp'[l] = grp[l],
           \A f \in run[u].foot.closes :
               prim'[f] = prim[f] /\ sec'[f] = sec[f] /\ (f \in known' <=> f \in known)
    PROVE  ThreadInv(u)'
<1>1. ThreadInv(u)
  BY DEF IInv
<1>2. /\ Held(u)' = Held(u) /\ Coming(u)' = Coming(u)
      /\ Annulling(u)' = Annulling(u) /\ Targeting(u)' = Targeting(u)
      /\ \A w : At(u, w)' = At(u, w)
  BY DEF Held, Coming, Annulling, Targeting, At
<1>3. Held(u) \subseteq run[u].foot.writes /\ run[u].foot.writes \subseteq run[u].foot.uses
  BY <1>1 DEF ThreadInv, FootOf
<1>4. /\ ToSet(run[u].queue) \subseteq Held(u)
      /\ run[u].loc # NoLoc => run[u].loc \in Held(u)
  BY DEF Held
<1>5. PlaceOf(u)'
  BY <1>1, <1>2, <1>3, <1>4 DEF ThreadInv, PlaceOf, At
<1>6. FootOf(u)'
  BY <1>1, <1>2, <1>3 DEF ThreadInv, FootOf
<1>7. PointersOf(u)'
  <2>1. /\ IsInjective(run'[u].queue)
        /\ run'[u].loc \notin ToSet(run'[u].queue)
        /\ At(u, "clear")' => run'[u].target \notin ToSet(run'[u].queue)
    BY <1>1, <1>2 DEF ThreadInv, PointersOf
  <2>2. \A l \in ToSet(run'[u].queue) : mem'[l] = "live" /\ grp'[l] = run'[u].group
    BY <1>1, <1>3, <1>4 DEF ThreadInv, PointersOf
  <2>3. \A l \in Held(u)' : mem'[l] \in {"live", "cleared"}
    BY <1>1, <1>2, <1>3 DEF ThreadInv, PointersOf
  <2>4. run'[u].pc \in {"close", "free"} => mem'[run'[u].loc] = "cleared"
    <3>1. run[u].pc \in {"close", "free"} => run[u].loc # NoLoc
      BY <1>1 DEF ThreadInv, PlaceOf, Annulling
    <3> QED
      BY <1>1, <1>3, <1>4, <3>1 DEF ThreadInv, PointersOf
  <2> QED
    BY <2>1, <2>2, <2>3, <2>4 DEF PointersOf
<1>8. CascadeOf(u)'
  BY <1>1, <1>2 DEF ThreadInv, CascadeOf
<1>9. ToCloseOf(u)'
  BY <1>1, <1>2 DEF ThreadInv, ToCloseOf
<1> QED
  BY <1>5, <1>6, <1>7, <1>8, <1>9 DEF ThreadInv

\* Nor, as far as it flushes a group, by one that leaves that group alone.
LEMMA FlushUndisturbed ==
    ASSUME IInv, NEW u \in Thread, run'[u] = run[u],
           \A l \in run[u].foot.uses : mem'[l] = mem[l],
           \A l \in run[u].foot.uses, g \in Group :
               l \in ToSet(members'[g]) => l \in ToSet(members[g]),
           Flushing(u) =>
               /\ mutex' = mutex /\ members' = members
               /\ \A l \in Loc : grp'[l] = run[u].group =>
                     /\ grp[l] = run[u].group
                     /\ \A v \in Thread : At(v, "clear") /\ run[v].target = l =>
                           At(v, "clear")' /\ run'[v].target = l
    PROVE  FlushOf(u)'
<1>1. FlushOf(u) /\ PlaceOf(u)
  BY DEF IInv, ThreadInv
<1>2. /\ Flushing(u)' = Flushing(u) /\ \A w : At(u, w)' = At(u, w)
  BY DEF Flushing, At
<1>3. Held(u) \subseteq run[u].foot.writes /\ run[u].foot.writes \subseteq run[u].foot.uses
  BY DEF IInv, ThreadInv, FootOf
<1>4. At(u, "clear") => run[u].target \in run[u].foot.uses
  BY <1>1, <1>3 DEF PlaceOf, Targeting, At, Held
<1>5. At(u, "clear")' => \A g \in Group :
          run'[u].target \in ToSet(members'[g]) => Flushing(u)' /\ run'[u].group = g
  BY <1>1, <1>2, <1>4 DEF FlushOf
<1>6. ASSUME Flushing(u)
      PROVE  /\ mutex' = u
             /\ ToSet(members'[run'[u].group]) \subseteq run'[u].foot.writes
             /\ \A l \in ToSet(members'[run'[u].group]) :
                   \/ l \in ToSet(run'[u].queue) \/ mem'[l] = "freed" \/ l = run'[u].loc
             /\ \A l \in Loc : grp'[l] = run'[u].group =>
                   \/ l \in ToSet(run'[u].queue)
                   \/ \E v \in Thread : At(v, "clear")' /\ run'[v].target = l
  <2>1. mutex' = u /\ ToSet(members'[run'[u].group]) \subseteq run'[u].foot.writes
    BY <1>1, <1>6 DEF FlushOf
  <2>2. \A l \in ToSet(members'[run'[u].group]) :
                   \/ l \in ToSet(run'[u].queue) \/ mem'[l] = "freed" \/ l = run'[u].loc
    BY <1>1, <1>3, <1>6 DEF FlushOf
  <2>3. \A l \in Loc : grp'[l] = run'[u].group =>
                   \/ l \in ToSet(run'[u].queue)
                   \/ \E v \in Thread : At(v, "clear")' /\ run'[v].target = l
    BY <1>1, <1>6 DEF FlushOf
  <2> QED
    BY <2>1, <2>2, <2>3
<1> QED
  BY <1>2, <1>5, <1>6 DEF FlushOf

-----------------------------------------------------------------------------
(* The steps *)

\* At the start there are no locators, and no thread is in a call.
LEMMA InitInv == Init => IInv
<1> SUFFICES ASSUME Init PROVE IInv
  OBVIOUS
<1>1. /\ \A t \in Thread : run[t] = Idle
      /\ \A l \in Loc : mem[l] = "unused" /\ file[l] = NoFile /\ grp[l] = NoGroup
      /\ \A f \in File : prim[f] = <<>> /\ sec[f] = <<>>
      /\ \A g \in Group : members[g] = <<>>
      /\ known = {} /\ mutex = NoThread
  BY DEF Init
<1>2. /\ Idle.pc = "idle" /\ Idle.group = NoGroup /\ Idle.queue = <<>>
      /\ Idle.loc = NoLoc /\ Idle.target = NoLoc /\ Idle.closing = NoFile
      /\ Idle.foot.writes = {} /\ Idle.foot.uses = {}
      /\ Idle.foot.files = {} /\ Idle.foot.closes = {}
  BY DEF Idle, NoFoot
<1>3. Idle \in Runs
  <2>1. <<>> \in Seq(Loc)
    OBVIOUS
  <2> QED
    BY <2>1 DEF Idle, Runs, NoFoot, Footprint, PcKind
<1>4. ToSet(<<>>) = {} /\ IsInjective(<<>>)
  BY DEF ToSet, IsInjective
<1>5. ClosingTypeOK
  <2>1. <<>> \in Seq(Loc)
    OBVIOUS
  <2> QED
    BY <1>3, <2>1 DEF Init, ClosingTypeOK
<1>6. Apart
  BY <1>1, <1>2 DEF Apart, Conflict
<1>7. ASSUME NEW t \in Thread PROVE ThreadInv(t) /\ FlushOf(t)
  <2>1. Held(t) = {} /\ ~Flushing(t) /\ ~Annulling(t) /\ ~Targeting(t) /\ ~At(t, "clear")
    BY <1>1, <1>2, <1>4 DEF Held, Flushing, Annulling, Targeting, At
  <2> QED
    BY <1>1, <1>2, <1>4, <2>1 DEF ThreadInv, PlaceOf, FootOf, PointersOf, CascadeOf, ToCloseOf,
         FlushOf, At
<1>8. \A f \in File : ListsOf(f)
  BY <1>1, <1>4 DEF ListsOf, Listed
<1>9. \A l \in Loc : LiveOne(l)
  BY <1>1 DEF LiveOne
<1>10. GroupsAgree
  BY <1>1, <1>4 DEF GroupsAgree
<1> QED
  BY <1>1, <1>5, <1>6, <1>7, <1>8, <1>9, <1>10 DEF IInv

\* A step of t changes only what its footprint F names: no other thread is
\* disturbed, and the footprints stay apart.
LEMMA OthersOk ==
    ASSUME IInv, NEW t \in Thread, NEW F,
           \A u \in Thread : u # t => run'[u] = run[u] /\ ~Conflict(F, run[u].foot),
           run'[t].foot = F \/ run'[t].foot = NoFoot,
           \A l \in Loc : l \notin F.writes =>
               /\ mem'[l] = mem[l] /\ file'[l] = file[l] /\ grp'[l] = grp[l]
               /\ \A g \in Group : l \in ToSet(members'[g]) => l \in ToSet(members[g]),
           \A f \in File : f \notin F.files =>
               prim'[f] = prim[f] /\ sec'[f] = sec[f] /\ (f \in known' <=> f \in known),
           \A u \in Thread : u # t /\ Flushing(u) =>
               /\ mutex' = mutex /\ members' = members
               /\ \A l \in Loc : grp'[l] # NoGroup => grp'[l] = grp[l],
           At(t, "clear") => grp'[run[t].target] = NoGroup
    PROVE  /\ Apart'
           /\ \A u \in Thread : u # t => ThreadInv(u)' /\ FlushOf(u)'
<1>1. Apart'
  <2> SUFFICES ASSUME NEW u \in Thread, NEW v \in Thread, u # v
               PROVE  ~Conflict(run'[u].foot, run'[v].foot)
    BY DEF Apart, Conflict
  <2>1. ~Conflict(run[u].foot, run[v].foot)
    BY DEF IInv, Apart
  <2>2. NoFoot.writes = {} /\ NoFoot.uses = {} /\ NoFoot.files = {} /\ NoFoot.closes = {}
    BY DEF NoFoot
  <2>3. CASE u = t
    BY <2>2, <2>3 DEF Conflict
  <2>4. CASE v = t
    BY <2>2, <2>4 DEF Conflict
  <2>5. CASE u # t /\ v # t
    BY <2>1, <2>5
  <2> QED
    BY <2>3, <2>4, <2>5
<1>2. ASSUME NEW u \in Thread, u # t PROVE ThreadInv(u)' /\ FlushOf(u)'
  <2>1. run'[u] = run[u] /\ F.writes \cap run[u].foot.uses = {} /\ F.files \cap run[u].foot.closes = {}
    BY <1>2 DEF Conflict
  <2>2. run[u].foot.uses \subseteq Loc /\ run[u].foot.closes \subseteq File
    BY RunTyped DEF IInv
  <2>3. ThreadInv(u)'
    <3>1. \A l \in run[u].foot.uses :
               mem'[l] = mem[l] /\ file'[l] = file[l] /\ grp'[l] = grp[l]
      BY <2>1, <2>2
    <3>2. \A f \in run[u].foot.closes :
               prim'[f] = prim[f] /\ sec'[f] = sec[f] /\ (f \in known' <=> f \in known)
      BY <2>1, <2>2
    <3> QED
      BY <2>1, <3>1, <3>2, Undisturbed
  <2>4. FlushOf(u)'
    <3>1. \A l \in run[u].foot.uses : mem'[l] = mem[l]
      BY <2>1, <2>2
    <3>2. \A l \in run[u].foot.uses, g \in Group :
               l \in ToSet(members'[g]) => l \in ToSet(members[g])
      BY <2>1, <2>2
    <3>3. ASSUME Flushing(u)
          PROVE  /\ mutex' = mutex /\ members' = members
                 /\ \A l \in Loc : grp'[l] = run[u].group =>
                      /\ grp[l] = run[u].group
                      /\ \A v \in Thread : At(v, "clear") /\ run[v].target = l =>
                            At(v, "clear")' /\ run'[v].target = l
      <4>1. run[u].group # NoGroup
        BY <3>3 DEF Flushing
      <4>2. ASSUME NEW l \in Loc, grp'[l] = run[u].group
            PROVE  /\ grp[l] = run[u].group
                   /\ \A v \in Thread : At(v, "clear") /\ run[v].target = l =>
                            At(v, "clear")' /\ run'[v].target = l
        BY <1>2, <3>3, <4>1, <4>2 DEF At
      <4> QED
        BY <1>2, <3>3, <4>2
    <3> QED
      BY <2>1, <3>1, <3>2, <3>3, FlushUndisturbed
  <2> QED
    BY <2>3, <2>4
<1> QED
  BY <1>1, <1>2

\* The footprint of a thread that is in a call conflicts with no other.
LEMMA OwnFoot ==
    ASSUME IInv, NEW t \in Thread
    PROVE  \A u \in Thread : u # t => ~Conflict(run[t].foot, run[u].foot)
  BY DEF IInv, Apart

\* The name of the group is looked at.
LEMMA TestGroupInv ==
    ASSUME IInv, NEW t \in Thread, TestGroup(t)
    PROVE  IInv'
<1> DEFINE x == run[t].target
<1>1. /\ At(t, "ingroup") /\ UNCHANGED <<locVars, prim, sec, known, members, mutex>>
      /\ run' = [run EXCEPT ![t].pc = IF grp[run[t].target] = NoGroup THEN "clear" ELSE "leave"]
  BY DEF TestGroup
<1>2. UNCHANGED <<mem, file, grp, prim, sec, known, members, mutex>>
  BY <1>1 DEF locVars
<1>3. ClosingTypeOK
  BY DEF IInv
<1>4. /\ run[t].pc = "ingroup"
      /\ run'[t].pc = (IF grp[x] = NoGroup THEN "clear" ELSE "leave")
      /\ run'[t].group = run[t].group /\ run'[t].queue = run[t].queue
      /\ run'[t].loc = run[t].loc /\ run'[t].target = run[t].target
      /\ run'[t].closing = run[t].closing /\ run'[t].foot = run[t].foot
      /\ \A u \in Thread : u # t => run'[u] = run[u]
  BY <1>1, <1>3, RunTyped DEF At, ClosingTypeOK, Runs
<1>5. ClosingTypeOK'
  <2>1. [run[t] EXCEPT !.pc = IF grp[x] = NoGroup THEN "clear" ELSE "leave"] \in Runs
    BY <1>3, RunTyped DEF Runs, PcKind
  <2>2. run' \in [Thread -> Runs]
    BY <1>1, <1>3, <2>1 DEF ClosingTypeOK
  <2> QED
    BY <1>2, <1>3, <2>2 DEF ClosingTypeOK
<1>6. Apart' /\ \A u \in Thread : u # t => ThreadInv(u)' /\ FlushOf(u)'
  <2>1. \A l \in Loc : grp'[l] # NoGroup => grp'[l] = grp[l]
    BY <1>2
  <2>2. ~At(t, "clear")
    BY <1>4 DEF At
  <2> QED
    BY <1>2, <1>4, <2>1, <2>2, OthersOk, OwnFoot
<1>7. ThreadInv(t) /\ FlushOf(t)
  BY DEF IInv
<1>8. /\ Held(t)' = Held(t) /\ Targeting(t)' /\ Targeting(t) /\ Unlisting(t)' /\ Unlisting(t)
      /\ Annulling(t)' /\ Annulling(t) /\ Flushing(t)' = Flushing(t) /\ Coming(t)' = Coming(t)
  BY <1>4 DEF Held, Targeting, Unlisting, Annulling, Flushing, Coming, At
<1>9. x # NoLoc /\ x \in Held(t) /\ x \in Loc
  BY <1>3, <1>7, <1>8, RunTyped DEF ThreadInv, PlaceOf, Held
<1>10. run'[t].pc = "clear" => x \notin ToSet(run[t].queue)
  <2> SUFFICES ASSUME grp[x] = NoGroup, x \in ToSet(run[t].queue) PROVE FALSE
    BY <1>4
  <2>1. run[t].group = NoGroup
    BY <1>7 DEF ThreadInv, PointersOf
  <2>2. run[t].queue = <<>>
    BY <1>7, <1>8, <2>1 DEF ThreadInv, PlaceOf
  <2> QED
    BY <2>2 DEF ToSet
<1>11. ThreadInv(t)'
  <2>1. PlaceOf(t)'
    BY <1>2, <1>4, <1>7, <1>8 DEF ThreadInv, PlaceOf, At
  <2>2. FootOf(t)'
    BY <1>2, <1>4, <1>7, <1>8 DEF ThreadInv, FootOf
  <2>3. PointersOf(t)'
    BY <1>2, <1>4, <1>7, <1>8, <1>10 DEF ThreadInv, PointersOf, At
  <2>4. CascadeOf(t)'
    BY <1>2, <1>4, <1>7, <1>8 DEF ThreadInv, CascadeOf, At
  <2>5. ToCloseOf(t)'
    BY <1>2, <1>4, <1>7, <1>8 DEF ThreadInv, ToCloseOf
  <2> QED
    BY <2>1, <2>2, <2>3, <2>4, <2>5 DEF ThreadInv
<1>12. FlushOf(t)'
  <2>1. ASSUME At(t, "clear")', NEW g \in Group, x \in ToSet(members[g])
        PROVE  Flushing(t) /\ run[t].group = g
    <3>1. grp[x] = NoGroup
      BY <1>4, <2>1 DEF At
    <3>2. g \in BeingFlushed
      BY <1>9, <2>1, <3>1 DEF IInv, GroupsAgree
    <3>3. PICK u \in Thread : Flushing(u) /\ g = run[u].group
      BY <3>2 DEF BeingFlushed
    <3>4. x \in run[u].foot.writes
      BY <2>1, <3>3 DEF IInv, FlushOf
    <3>5. x \in run[t].foot.writes
      BY <1>7, <1>9 DEF ThreadInv, FootOf
    <3> QED
      BY <3>3, <3>4, <3>5, FootsApart
  <2>2. \A v \in Thread : \A l : At(v, "clear") /\ run[v].target = l => At(v, "clear")' /\ run'[v].target = l
    BY <1>4 DEF At
  <2> QED
    BY <1>2, <1>4, <1>7, <1>8, <2>1, <2>2 DEF FlushOf
<1>13. \A u \in Thread : \A l : Unlisted(u, l)' = Unlisted(u, l)
  <2> SUFFICES ASSUME NEW u \in Thread, NEW l PROVE Unlisted(u, l)' = Unlisted(u, l)
    OBVIOUS
  <2>1. CASE u = t
    BY <1>4, <1>8, <2>1 DEF Unlisted
  <2>2. CASE u # t
    BY <1>4, <2>2 DEF Unlisted, Unlisting, Targeting
  <2> QED
    BY <2>1, <2>2
<1>14. \A f \in File : ListsOf(f)'
  BY <1>2, <1>13 DEF IInv, ListsOf, Listed
<1>15. \A l \in Loc : LiveOne(l)'
  BY <1>2, <1>13 DEF IInv, LiveOne, Listed
<1>16. \A f \in known' : KeptOf(f)'
  BY <1>2, <1>4 DEF IInv, KeptOf
<1>17. GroupsAgree'
  <2>1. BeingFlushed' = BeingFlushed
    BY <1>4, <1>8 DEF BeingFlushed, Flushing, At
  <2>2. \A v \in Thread : \A l : At(v, "clear") /\ run[v].target = l => At(v, "clear")' /\ run'[v].target = l
    BY <1>4 DEF At
  <2> QED
    BY <1>2, <2>1, <2>2 DEF IInv, GroupsAgree
<1> QED
  BY <1>5, <1>6, <1>11, <1>12, <1>14, <1>15, <1>16, <1>17 DEF IInv

\* The locator leaves its group; no group is being flushed.
LEMMA LeaveGroupInv ==
    ASSUME IInv, NEW t \in Thread, LeaveGroup(t)
    PROVE  IInv'
<1> DEFINE x == run[t].target
<1>1. /\ At(t, "leave") /\ mutex = NoThread
      /\ members' = [g \in Group |-> IF g = grp[run[t].target]
                                     THEN Without(members[g], run[t].target) ELSE members[g]]
      /\ run' = [run EXCEPT ![t].pc = "clear"]
      /\ UNCHANGED <<mem, file, grp, prim, sec, known, mutex>>
  BY DEF LeaveGroup, locVars
<1>2. ClosingTypeOK
  BY DEF IInv
<1>3. /\ run[t].pc = "leave" /\ run'[t].pc = "clear"
      /\ run'[t].group = run[t].group /\ run'[t].queue = run[t].queue
      /\ run'[t].loc = run[t].loc /\ run'[t].target = run[t].target
      /\ run'[t].closing = run[t].closing /\ run'[t].foot = run[t].foot
      /\ \A u \in Thread : u # t => run'[u] = run[u]
  BY <1>1, <1>2, RunTyped DEF At, ClosingTypeOK, Runs
<1>4. ThreadInv(t) /\ FlushOf(t)
  BY DEF IInv
<1>5. \A u \in Thread : ~Flushing(u) /\ ~Flushing(u)'
  <2>1. \A u \in Thread : ~Flushing(u)
    BY <1>1 DEF IInv, FlushOf
  <2>2. run[t].group = NoGroup
    BY <1>3, <2>1 DEF Flushing, At
  <2> QED
    BY <1>3, <2>1, <2>2 DEF Flushing, At
<1>6. BeingFlushed = {} /\ BeingFlushed' = {}
  BY <1>5 DEF BeingFlushed
<1>7. \A g \in Group : /\ members[g] \in Seq(Loc) /\ IsInjective(members[g])
                       /\ members'[g] \in Seq(Loc) /\ IsInjective(members'[g])
                       /\ ToSet(members'[g]) = IF g = grp[x] THEN ToSet(members[g]) \ {x}
                                               ELSE ToSet(members[g])
  <2> SUFFICES ASSUME NEW g \in Group
               PROVE  /\ members[g] \in Seq(Loc) /\ IsInjective(members[g])
                      /\ members'[g] \in Seq(Loc) /\ IsInjective(members'[g])
                      /\ ToSet(members'[g]) = IF g = grp[x] THEN ToSet(members[g]) \ {x}
                                              ELSE ToSet(members[g])
    OBVIOUS
  <2>1. members[g] \in Seq(Loc) /\ IsInjective(members[g])
    BY DEF IInv, ClosingTypeOK, GroupsAgree
  <2>2. members'[g] = IF g = grp[x] THEN Without(members[g], x) ELSE members[g]
    BY <1>1
  <2>3. /\ Without(members[g], x) \in Seq(Loc) /\ IsInjective(Without(members[g], x))
        /\ ToSet(Without(members[g], x)) = ToSet(members[g]) \ {x}
    BY <2>1, WithoutOk
  <2> QED
    BY <2>1, <2>2, <2>3
<1>8. ClosingTypeOK'
  <2>1. [run[t] EXCEPT !.pc = "clear"] \in Runs
    BY <1>2, RunTyped DEF Runs, PcKind
  <2>2. run' \in [Thread -> Runs]
    BY <1>1, <1>2, <2>1 DEF ClosingTypeOK
  <2>3. members' \in [Group -> Seq(Loc)]
    <3>1. members' = [g \in Group |-> members'[g]]
      BY <1>1
    <3> QED
      BY <1>7, <3>1
  <2> QED
    BY <1>1, <1>2, <2>2, <2>3 DEF ClosingTypeOK
<1>9. /\ Held(t)' = Held(t) /\ Targeting(t)' /\ Targeting(t) /\ Unlisting(t)' /\ Unlisting(t)
      /\ Annulling(t)' /\ Annulling(t) /\ Coming(t)' = Coming(t)
  BY <1>3 DEF Held, Targeting, Unlisting, Annulling, Coming, At
<1>10. x # NoLoc /\ x \in Held(t) /\ x \in Loc /\ x \in run[t].foot.writes
  BY <1>2, <1>4, <1>9, RunTyped DEF ThreadInv, PlaceOf, FootOf, Held
<1>11. Apart' /\ \A u \in Thread : u # t => ThreadInv(u)' /\ FlushOf(u)'
  <2>1. \A l \in Loc : l \notin run[t].foot.writes =>
               /\ mem'[l] = mem[l] /\ file'[l] = file[l] /\ grp'[l] = grp[l]
               /\ \A g \in Group : l \in ToSet(members'[g]) => l \in ToSet(members[g])
    BY <1>1, <1>7
  <2>2. ~At(t, "clear")
    BY <1>3 DEF At
  <2> QED
    BY <1>1, <1>3, <1>5, <2>1, <2>2, OthersOk, OwnFoot
<1>12. ThreadInv(t)'
  <2>1. PlaceOf(t)'
    BY <1>1, <1>3, <1>4, <1>9 DEF ThreadInv, PlaceOf, At
  <2>2. FootOf(t)'
    BY <1>1, <1>3, <1>4, <1>9 DEF ThreadInv, FootOf
  <2>3. PointersOf(t)'
    <3>1. run[t].queue = <<>>
      BY <1>3, <1>4, <1>5, <1>9 DEF ThreadInv, PlaceOf, Flushing, At
    <3>2. x \notin ToSet(run[t].queue)
      BY <3>1 DEF ToSet
    <3> QED
      BY <1>1, <1>3, <1>4, <1>9, <3>2 DEF ThreadInv, PointersOf, At
  <2>4. CascadeOf(t)'
    BY <1>1, <1>3, <1>4, <1>9 DEF ThreadInv, CascadeOf, At
  <2>5. ToCloseOf(t)'
    BY <1>1, <1>3, <1>4, <1>9 DEF ThreadInv, ToCloseOf
  <2> QED
    BY <2>1, <2>2, <2>3, <2>4, <2>5 DEF ThreadInv
<1>13. FlushOf(t)'
  <2>1. ASSUME NEW g \in Group, x \in ToSet(members'[g]) PROVE FALSE
    <3>1. g # grp[x] /\ x \in ToSet(members[g])
      BY <1>7, <2>1
    <3> QED
      BY <1>6, <1>10, <3>1 DEF IInv, GroupsAgree
  <2> QED
    BY <1>3, <1>5, <2>1 DEF FlushOf
<1>14. \A u \in Thread : \A l : Unlisted(u, l)' = Unlisted(u, l)
  <2> SUFFICES ASSUME NEW u \in Thread, NEW l PROVE Unlisted(u, l)' = Unlisted(u, l)
    OBVIOUS
  <2>1. CASE u = t
    BY <1>3, <1>9, <2>1 DEF Unlisted
  <2>2. CASE u # t
    BY <1>3, <2>2 DEF Unlisted, Unlisting, Targeting
  <2> QED
    BY <2>1, <2>2
<1>15. \A f \in File : ListsOf(f)'
  BY <1>1, <1>14 DEF IInv, ListsOf, Listed
<1>16. \A l \in Loc : LiveOne(l)'
  BY <1>1, <1>14 DEF IInv, LiveOne, Listed
<1>17. \A f \in known' : KeptOf(f)'
  BY <1>1, <1>3 DEF IInv, KeptOf
<1>18. GroupsAgree'
  <2> SUFFICES ASSUME NEW g \in Group, NEW l \in Loc
               PROVE  /\ l \in ToSet(members'[g]) => grp[l] = g /\ mem[l] = "live"
                      /\ grp[l] = g => \/ l \in ToSet(members'[g])
                                       \/ \E u \in Thread : At(u, "clear")' /\ run'[u].target = l
    BY <1>1, <1>7 DEF GroupsAgree
  <2>1. /\ l \in ToSet(members[g]) => grp[l] = g /\ mem[l] = "live"
        /\ grp[l] = g => \/ l \in ToSet(members[g])
                         \/ \E u \in Thread : At(u, "clear") /\ run[u].target = l
    BY <1>6 DEF IInv, GroupsAgree
  <2>2. At(t, "clear")' /\ run'[t].target = x
    BY <1>3 DEF At
  <2>3. \A u \in Thread : At(u, "clear") => At(u, "clear")' /\ run'[u].target = run[u].target
    BY <1>3 DEF At
  <2> QED
    BY <1>7, <2>1, <2>2, <2>3
<1> QED
  BY <1>8, <1>11, <1>12, <1>13, <1>15, <1>16, <1>17, <1>18 DEF IInv

\* dat1Anloc clears the locator.
LEMMA ClearInv ==
    ASSUME IInv, NEW t \in Thread, Clear(t)
    PROVE  IInv'
<1> DEFINE x == run[t].target
           next == IF x # run[t].loc THEN "pop"
                   ELSE IF run[t].closing # NoFile THEN "close" ELSE "free"
<1>1. /\ At(t, "clear")
      /\ mem' = [mem EXCEPT ![x] = "cleared"]
      /\ file' = [file EXCEPT ![x] = NoFile]
      /\ grp' = [grp EXCEPT ![x] = NoGroup]
      /\ run' = [run EXCEPT ![t].pc = next]
      /\ UNCHANGED <<prim, sec, known, members, mutex>>
  BY DEF Clear
<1>2. ClosingTypeOK
  BY DEF IInv
<1>3. next \in {"pop", "close", "free"}
  OBVIOUS
<1>4. /\ run[t].pc = "clear" /\ run'[t].pc = next
      /\ run'[t].group = run[t].group /\ run'[t].queue = run[t].queue
      /\ run'[t].loc = run[t].loc /\ run'[t].target = run[t].target
      /\ run'[t].closing = run[t].closing /\ run'[t].foot = run[t].foot
      /\ \A u \in Thread : u # t => run'[u] = run[u]
  BY <1>1, <1>2, RunTyped DEF At, ClosingTypeOK, Runs
<1>5. ThreadInv(t) /\ FlushOf(t)
  BY DEF IInv
<1>6. /\ Held(t)' = Held(t) /\ Targeting(t) /\ ~Targeting(t)' /\ Unlisting(t)
      /\ Annulling(t)' /\ Annulling(t) /\ Flushing(t)' = Flushing(t) /\ Coming(t)' = Coming(t)
  BY <1>3, <1>4 DEF Held, Targeting, Unlisting, Annulling, Flushing, Coming, At
<1>7. x # NoLoc /\ x \in Held(t) /\ x \in Loc /\ x \in run[t].foot.writes
  BY <1>2, <1>5, <1>6, RunTyped DEF ThreadInv, PlaceOf, FootOf, Held
<1>8. /\ mem'[x] = "cleared" /\ file'[x] = NoFile /\ grp'[x] = NoGroup
      /\ \A l : l # x => mem'[l] = mem[l] /\ file'[l] = file[l] /\ grp'[l] = grp[l]
  <2>1. mem'[x] = "cleared" /\ file'[x] = NoFile /\ grp'[x] = NoGroup
    BY <1>1, <1>2, <1>7 DEF ClosingTypeOK
  <2> QED
    BY <1>1, <1>2, <2>1 DEF ClosingTypeOK
<1>9. ClosingTypeOK'
  <2>1. [run[t] EXCEPT !.pc = next] \in Runs
    BY <1>2, <1>3, RunTyped DEF Runs, PcKind
  <2>2. run' \in [Thread -> Runs]
    BY <1>1, <1>2, <2>1 DEF ClosingTypeOK
  <2> QED
    BY <1>1, <1>2, <2>2 DEF ClosingTypeOK
<1>10. Apart' /\ \A u \in Thread : u # t => ThreadInv(u)' /\ FlushOf(u)'
  <2>1. \A l \in Loc : l \notin run[t].foot.writes =>
               /\ mem'[l] = mem[l] /\ file'[l] = file[l] /\ grp'[l] = grp[l]
               /\ \A g \in Group : l \in ToSet(members'[g]) => l \in ToSet(members[g])
    BY <1>1, <1>7, <1>8
  <2>2. \A l \in Loc : grp'[l] # NoGroup => grp'[l] = grp[l]
    BY <1>8
  <2> QED
    BY <1>1, <1>4, <1>8, <2>1, <2>2, OthersOk, OwnFoot
<1>11. x \notin ToSet(run[t].queue)
  BY <1>1, <1>5 DEF ThreadInv, PointersOf
<1>12. ThreadInv(t)'
  <2>1. PlaceOf(t)'
    BY <1>3, <1>4, <1>5, <1>6 DEF ThreadInv, PlaceOf, At
  <2>2. FootOf(t)'
    BY <1>4, <1>5, <1>6, <1>8 DEF ThreadInv, FootOf
  <2>3. PointersOf(t)'
    <3>1. \A l \in ToSet(run'[t].queue) : mem'[l] = "live" /\ grp'[l] = run'[t].group
      BY <1>4, <1>5, <1>8, <1>11 DEF ThreadInv, PointersOf
    <3>2. \A l \in Held(t)' : mem'[l] \in {"live", "cleared"}
      BY <1>5, <1>6, <1>8 DEF ThreadInv, PointersOf
    <3>3. run'[t].pc \in {"close", "free"} => mem'[run'[t].loc] = "cleared"
      BY <1>4, <1>8
    <3> QED
      BY <1>3, <1>4, <1>5, <3>1, <3>2, <3>3 DEF ThreadInv, PointersOf, At
  <2>4. CascadeOf(t)'
    BY <1>1, <1>3, <1>4, <1>5, <1>6 DEF ThreadInv, CascadeOf, At
  <2>5. ToCloseOf(t)'
    BY <1>1, <1>4, <1>5, <1>6 DEF ThreadInv, ToCloseOf
  <2> QED
    BY <2>1, <2>2, <2>3, <2>4, <2>5 DEF ThreadInv
<1>13. \A u \in Thread : \A l : At(u, "clear") /\ run[u].target = l /\ l # x
                               => At(u, "clear")' /\ run'[u].target = l
  BY <1>4 DEF At
<1>14. FlushOf(t)'
  <2>1. ~At(t, "clear")'
    BY <1>3, <1>4 DEF At
  <2>2. mem[x] # "freed"
    BY <1>5, <1>7 DEF ThreadInv, PointersOf
  <2>3. ASSUME Flushing(t)
        PROVE  \A l \in Loc : grp'[l] = run[t].group =>
                \/ l \in ToSet(run[t].queue)
                \/ \E u \in Thread : At(u, "clear")' /\ run'[u].target = l
    <3>1. run[t].group # NoGroup
      BY <2>3 DEF Flushing
    <3>2. \A l \in Loc : grp'[l] = run[t].group => l # x /\ grp[l] = run[t].group
      BY <1>8, <3>1
    <3> QED
      BY <1>5, <1>13, <2>3, <3>2 DEF FlushOf
  <2>4. ASSUME Flushing(t)
        PROVE  \A l \in ToSet(members'[run'[t].group]) :
                \/ l \in ToSet(run'[t].queue) \/ mem'[l] = "freed" \/ l = run'[t].loc
    BY <1>1, <1>4, <1>5, <1>8, <2>2, <2>4 DEF FlushOf
  <2> QED
    BY <1>1, <1>4, <1>5, <1>6, <2>1, <2>3, <2>4 DEF FlushOf
<1>15. \A u \in Thread : \A l : Unlisted(u, l)' => Unlisted(u, l)
  <2> SUFFICES ASSUME NEW u \in Thread, NEW l, Unlisted(u, l)' PROVE Unlisted(u, l)
    OBVIOUS
  <2>1. CASE u = t
    BY <1>4, <1>6, <2>1 DEF Unlisted
  <2>2. CASE u # t
    BY <1>4, <2>2 DEF Unlisted, Unlisting, Targeting
  <2> QED
    BY <2>1, <2>2
<1>16. \A f \in File : ListsOf(f)'
  <2>1. \A f \in File : x \notin Listed(f)
    BY <1>6 DEF IInv, ListsOf, Unlisted
  <2> SUFFICES ASSUME NEW f \in File PROVE ListsOf(f)'
    OBVIOUS
  <2>2. \A l \in Listed(f) :
           mem'[l] = "live" /\ file'[l] = f /\ \A u \in Thread : ~Unlisted(u, l)'
    BY <1>8, <1>15, <2>1 DEF IInv, ListsOf
  <2> QED
    BY <1>1, <2>2 DEF IInv, ListsOf, Listed
<1>17. ASSUME NEW l \in Loc PROVE LiveOne(l)'
  <2> SUFFICES ASSUME mem'[l] = "live"
               PROVE  /\ file'[l] \in known
                      /\ l \in Listed(file'[l]) \/ \E u \in Thread : Unlisted(u, l)'
    BY <1>1 DEF LiveOne, Listed
  <2>1. l # x /\ file'[l] = file[l] /\ mem[l] = "live"
    BY <1>8
  <2>2. file[l] \in known /\ (l \in Listed(file[l]) \/ \E u \in Thread : Unlisted(u, l))
    BY <2>1 DEF IInv, LiveOne
  <2>3. ASSUME NEW u \in Thread, Unlisted(u, l) PROVE Unlisted(u, l)'
    <3>1. CASE u = t
      <4>1. l = run[t].loc
        BY <2>1, <2>3, <3>1 DEF Unlisted
      <4>2. run'[t].pc = "pop"
        BY <1>4, <2>1, <4>1
      <4> QED
        BY <1>4, <3>1, <4>1, <4>2 DEF Unlisted, Unlisting
    <3>2. CASE u # t
      BY <1>4, <2>3, <3>2 DEF Unlisted, Unlisting, Targeting
    <3> QED
      BY <3>1, <3>2
  <2> QED
    BY <2>1, <2>2, <2>3
<1>18. \A f \in known' : KeptOf(f)'
  BY <1>1, <1>4 DEF IInv, KeptOf
<1>19. GroupsAgree'
  <2>1. BeingFlushed' = BeingFlushed
    BY <1>4, <1>6 DEF BeingFlushed, Flushing, At
  <2> SUFFICES ASSUME NEW g \in Group \ BeingFlushed, NEW l \in Loc
               PROVE  /\ l \in ToSet(members[g]) => grp'[l] = g /\ mem'[l] = "live"
                      /\ grp'[l] = g => \/ l \in ToSet(members[g])
                                        \/ \E u \in Thread : At(u, "clear")' /\ run'[u].target = l
    BY <1>1, <2>1 DEF IInv, GroupsAgree
  <2>2. /\ l \in ToSet(members[g]) => grp[l] = g /\ mem[l] = "live"
        /\ grp[l] = g => \/ l \in ToSet(members[g])
                         \/ \E u \in Thread : At(u, "clear") /\ run[u].target = l
    BY DEF IInv, GroupsAgree
  <2>3. x \notin ToSet(members[g])
    BY <1>1, <1>5 DEF FlushOf, BeingFlushed
  <2>4. CASE l = x
    BY <1>8, <2>3, <2>4
  <2>5. CASE l # x
    BY <1>8, <1>13, <2>2, <2>5
  <2> QED
    BY <2>4, <2>5
<1> QED
  BY <1>9, <1>10, <1>12, <1>14, <1>16, <1>17, <1>18, <1>19 DEF IInv

\* The file is closed.
LEMMA CloseFileInv ==
    ASSUME IInv, NEW t \in Thread, CloseFile(t)
    PROVE  IInv'
<1> DEFINE f == run[t].closing
<1>1. /\ At(t, "close")
      /\ known' = known \ {f}
      /\ prim' = [prim EXCEPT ![f] = <<>>]
      /\ sec' = [sec EXCEPT ![f] = <<>>]
      /\ run' = [run EXCEPT ![t].pc = "free", ![t].closing = NoFile]
      /\ UNCHANGED <<mem, file, grp, members, mutex>>
  BY DEF CloseFile, locVars
<1>2. ClosingTypeOK
  BY DEF IInv
<1>3. /\ run[t].pc = "close" /\ run'[t].pc = "free"
      /\ run'[t].group = run[t].group /\ run'[t].queue = run[t].queue
      /\ run'[t].loc = run[t].loc /\ run'[t].target = run[t].target
      /\ run'[t].closing = NoFile /\ run'[t].foot = run[t].foot
      /\ \A u \in Thread : u # t => run'[u] = run[u]
  BY <1>1, <1>2, RunTyped DEF At, ClosingTypeOK, Runs
<1>4. ThreadInv(t) /\ FlushOf(t)
  BY DEF IInv
<1>5. /\ Held(t)' = Held(t) /\ ~Targeting(t) /\ ~Targeting(t)' /\ ~Unlisting(t) /\ ~Unlisting(t)'
      /\ Annulling(t)' /\ Annulling(t) /\ Flushing(t)' = Flushing(t) /\ Coming(t)' = Coming(t)
      /\ ~At(t, "clear") /\ ~At(t, "clear")'
  BY <1>3 DEF Held, Targeting, Unlisting, Annulling, Flushing, Coming, At
<1>6. /\ f \in run[t].foot.closes /\ f \in run[t].foot.files /\ f \in known /\ f \in File
      /\ prim[f] = <<>> /\ sec[f] = <<>>
  BY <1>1, <1>2, <1>3, <1>4, RunTyped DEF ThreadInv, PlaceOf, CascadeOf, FootOf
<1>7. /\ prim' = prim /\ sec' = sec
  BY <1>1, <1>2, <1>6 DEF ClosingTypeOK
<1>8. ClosingTypeOK'
  <2>1. [run[t] EXCEPT !.pc = "free", !.closing = NoFile] \in Runs
    BY <1>2, RunTyped DEF Runs, PcKind
  <2>2. run' = [run EXCEPT ![t] = [run[t] EXCEPT !.pc = "free", !.closing = NoFile]]
    BY <1>1, <1>2 DEF ClosingTypeOK
  <2>3. run' \in [Thread -> Runs]
    BY <1>2, <2>1, <2>2 DEF ClosingTypeOK
  <2> QED
    BY <1>1, <1>2, <1>7, <2>3 DEF ClosingTypeOK
<1>9. Apart' /\ \A u \in Thread : u # t => ThreadInv(u)' /\ FlushOf(u)'
  <2>1. \A g \in File : g \notin run[t].foot.files =>
               prim'[g] = prim[g] /\ sec'[g] = sec[g] /\ (g \in known' <=> g \in known)
    BY <1>1, <1>6, <1>7
  <2>2. mem' = mem /\ file' = file /\ grp' = grp /\ members' = members /\ mutex' = mutex
    BY <1>1
  <2> QED
    BY <1>3, <1>5, <2>1, <2>2, OthersOk, OwnFoot
<1>10. ThreadInv(t)'
  <2>1. PlaceOf(t)'
    BY <1>3, <1>4, <1>5 DEF ThreadInv, PlaceOf, At
  <2>2. FootOf(t)'
    BY <1>1, <1>3, <1>4, <1>5 DEF ThreadInv, FootOf
  <2>3. PointersOf(t)'
    BY <1>1, <1>3, <1>4, <1>5 DEF ThreadInv, PointersOf
  <2>4. CascadeOf(t)'
    BY <1>3 DEF CascadeOf
  <2>5. ToCloseOf(t)'
    <3> SUFFICES ASSUME NEW g \in run[t].foot.closes \cap known'
                 PROVE  /\ ToSet(sec[g]) \subseteq run[t].foot.writes
                        /\ prim[g] # <<>> /\ ToSet(prim[g]) \subseteq Coming(t)
      BY <1>3, <1>5, <1>7 DEF ToCloseOf
    <3>1. g # f /\ g \in known
      BY <1>1
    <3> QED
      BY <1>4, <3>1 DEF ThreadInv, ToCloseOf
  <2> QED
    BY <2>1, <2>2, <2>3, <2>4, <2>5 DEF ThreadInv
<1>11. \A u \in Thread : \A l : At(u, "clear") /\ run[u].target = l => At(u, "clear")' /\ run'[u].target = l
  BY <1>3, <1>5 DEF At
<1>12. FlushOf(t)'
  BY ZenonT(40), <1>1, <1>3, <1>4, <1>5, <1>11 DEF FlushOf
<1>13. \A u \in Thread : \A l : Unlisted(u, l)' = Unlisted(u, l)
  <2> SUFFICES ASSUME NEW u \in Thread, NEW l PROVE Unlisted(u, l)' = Unlisted(u, l)
    OBVIOUS
  <2>1. CASE u = t
    BY <1>5, <2>1 DEF Unlisted
  <2>2. CASE u # t
    BY <1>3, <2>2 DEF Unlisted, Unlisting, Targeting
  <2> QED
    BY <2>1, <2>2
<1>14. \A g \in File : ListsOf(g)'
  BY <1>1, <1>7, <1>13 DEF IInv, ListsOf, Listed
<1>15. ASSUME NEW l \in Loc, mem[l] = "live" PROVE file[l] # f
  <2> SUFFICES ASSUME file[l] = f PROVE FALSE
    OBVIOUS
  <2>1. l \notin Listed(f)
    BY <1>6 DEF Listed, ToSet
  <2>2. PICK u \in Thread : Unlisted(u, l)
    BY <1>15, <2>1 DEF IInv, LiveOne
  <2>3. u # t
    BY <1>5, <2>2 DEF Unlisted
  <2>4. l \in run[u].foot.writes
    <3>1. ThreadInv(u)
      BY DEF IInv
    <3>2. l # NoLoc
      OBVIOUS
    <3> QED
      BY <2>2, <3>1, <3>2 DEF ThreadInv, FootOf, Held, Unlisted
  <2>5. f \in run[u].foot.files
    BY <1>6, <2>4 DEF IInv, ThreadInv, FootOf
  <2> QED
    BY <1>6, <2>3, <2>5, FootsApart
<1>16. \A l \in Loc : LiveOne(l)'
  BY <1>1, <1>7, <1>13, <1>15 DEF IInv, LiveOne, Listed
<1>17. \A g \in known' : KeptOf(g)'
  <2> SUFFICES ASSUME NEW g \in known' PROVE KeptOf(g)'
    OBVIOUS
  <2>1. KeptOf(g)
    BY <1>1 DEF IInv
  <2>2. \A u \in Thread : run'[u].foot = run[u].foot
    BY <1>3
  <2> QED
    BY <1>7, <2>1, <2>2 DEF KeptOf
<1>18. GroupsAgree'
  <2>1. \A u \in Thread : Flushing(u)' = Flushing(u) /\ run'[u].group = run[u].group
    BY <1>3, <1>5 DEF Flushing, At
  <2>2. BeingFlushed' = BeingFlushed
    BY <2>1 DEF BeingFlushed
  <2>3. members' = members /\ mem' = mem /\ grp' = grp
    BY <1>1
  <2> QED
    BY <1>11, <2>2, <2>3 DEF IInv, GroupsAgree
<1> QED
  BY <1>8, <1>9, <1>10, <1>12, <1>14, <1>16, <1>17, <1>18 DEF IInv

\* A thread that is in no call keeps nothing.
LEMMA IdleOk ==
    ASSUME NEW t \in Thread, run'[t] = Idle
    PROVE  /\ ThreadInv(t)' /\ FlushOf(t)' /\ ~Flushing(t)'
           /\ run'[t].foot = NoFoot /\ run'[t].foot.closes = {} /\ run'[t].foot.writes = {}
           /\ \A l : ~Unlisted(t, l)'
           /\ ~At(t, "clear")'
           /\ Idle \in Runs
<1>1. /\ Idle.pc = "idle" /\ Idle.group = NoGroup /\ Idle.queue = <<>>
      /\ Idle.loc = NoLoc /\ Idle.target = NoLoc /\ Idle.closing = NoFile /\ Idle.foot = NoFoot
      /\ Idle.foot.writes = {} /\ Idle.foot.uses = {}
      /\ Idle.foot.files = {} /\ Idle.foot.closes = {}
  BY DEF Idle, NoFoot
<1>2. ToSet(<<>>) = {} /\ IsInjective(<<>>)
  BY DEF ToSet, IsInjective
<1>3. /\ Held(t)' = {} /\ ~Flushing(t)' /\ ~Annulling(t)' /\ ~Targeting(t)' /\ ~Unlisting(t)'
      /\ ~At(t, "clear")'
  BY <1>1, <1>2 DEF Held, Flushing, Annulling, Targeting, Unlisting, At
<1>4. ThreadInv(t)' /\ FlushOf(t)'
  BY <1>1, <1>2, <1>3 DEF ThreadInv, PlaceOf, FootOf, PointersOf, CascadeOf, ToCloseOf,
       FlushOf, At
<1>5. Idle \in Runs
  <2>1. <<>> \in Seq(Loc)
    OBVIOUS
  <2> QED
    BY <2>1 DEF Idle, Runs, NoFoot, Footprint, PcKind
<1> QED
  BY <1>1, <1>3, <1>4, <1>5 DEF Unlisted

\* A thread that has nothing more to annul has closed the files that it had to.
LEMMA AllClosed ==
    ASSUME IInv, NEW t \in Thread, ToSet(run[t].queue) = {}, ~At(t, "unregister"),
           run[t].closing = NoFile
    PROVE  run[t].foot.closes \cap known = {}
<1> SUFFICES ASSUME NEW f \in run[t].foot.closes \cap known PROVE FALSE
  OBVIOUS
<1>1. f \in File
  BY RunTyped DEF IInv
<1>2. prim[f] # <<>> /\ ToSet(prim[f]) \subseteq Coming(t)
  BY <1>1 DEF IInv, ThreadInv, ToCloseOf
<1>3. Coming(t) = {}
  BY DEF Coming
<1>4. prim[f] \in Seq(Loc)
  BY <1>1 DEF IInv, ClosingTypeOK
<1> QED
  BY <1>2, <1>3, <1>4, ShortLists

\* The locator is freed, and the thread goes on with the group or returns.
LEMMA FreeLocInv ==
    ASSUME IInv, NEW t \in Thread, FreeLoc(t)
    PROVE  IInv'
<1> DEFINE x == run[t].loc
<1>1. /\ At(t, "free")
      /\ mem' = [mem EXCEPT ![x] = "freed"]
      /\ run' = [run EXCEPT ![t] = IF Flushing(t)
                     THEN [run[t] EXCEPT !.pc = "next", !.loc = NoLoc, !.target = NoLoc]
                     ELSE Idle]
      /\ UNCHANGED <<file, grp, prim, sec, known, members, mutex>>
  BY DEF FreeLoc
<1>2. ClosingTypeOK
  BY DEF IInv
<1>3. ThreadInv(t) /\ FlushOf(t)
  BY DEF IInv
<1>4. /\ run[t].pc = "free"
      /\ \A u \in Thread : u # t => run'[u] = run[u]
      /\ run'[t] = IF Flushing(t)
                     THEN [run[t] EXCEPT !.pc = "next", !.loc = NoLoc, !.target = NoLoc]
                     ELSE Idle
  BY <1>1, <1>2 DEF At, ClosingTypeOK
<1>5. /\ ~Targeting(t) /\ ~Unlisting(t) /\ Annulling(t) /\ ~At(t, "clear") /\ ~At(t, "unregister")
  BY <1>4 DEF Targeting, Unlisting, Annulling, At
<1>6. x # NoLoc /\ x \in Held(t) /\ x \in Loc /\ x \in run[t].foot.writes /\ mem[x] = "cleared"
  BY <1>2, <1>3, <1>4, <1>5, RunTyped DEF ThreadInv, PlaceOf, FootOf, PointersOf, Held
<1>7. mem'[x] = "freed" /\ \A l : l # x => mem'[l] = mem[l]
  <2>1. mem'[x] = "freed"
    BY <1>1, <1>2, <1>6 DEF ClosingTypeOK
  <2> QED
    BY <1>1, <1>2, <2>1 DEF ClosingTypeOK
<1>8. ASSUME Flushing(t)
      PROVE  /\ run'[t].pc = "next" /\ run'[t].loc = NoLoc /\ run'[t].target = NoLoc
             /\ run'[t].group = run[t].group /\ run'[t].queue = run[t].queue
             /\ run'[t].closing = run[t].closing /\ run'[t].foot = run[t].foot
             /\ Flushing(t)' /\ ~Targeting(t)' /\ ~Unlisting(t)' /\ ~Annulling(t)'
             /\ ~At(t, "clear")' /\ ~At(t, "unregister")'
             /\ run'[t] \in Runs /\ run[t].group # NoGroup /\ run[t].closing = NoFile
  <2>1. /\ run'[t].pc = "next" /\ run'[t].loc = NoLoc /\ run'[t].target = NoLoc
        /\ run'[t].group = run[t].group /\ run'[t].queue = run[t].queue
        /\ run'[t].closing = run[t].closing /\ run'[t].foot = run[t].foot
        /\ run'[t] \in Runs
    <3>1. run'[t] = [run[t] EXCEPT !.pc = "next", !.loc = NoLoc, !.target = NoLoc]
      BY <1>4, <1>8
    <3>2. run[t] \in Runs
      BY <1>2, RunTyped
    <3>3. run'[t] \in Runs
      BY <3>1, <3>2 DEF Runs, PcKind
    <3> QED
      BY <3>1, <3>2, <3>3 DEF Runs
  <2>2. run[t].group # NoGroup /\ run[t].closing = NoFile
    BY <1>3, <1>4, <1>8 DEF Flushing, ThreadInv, PlaceOf
  <2> QED
    BY <2>1, <2>2 DEF Targeting, Unlisting, Annulling, Flushing, At
<1>9. run'[t] \in Runs
  BY <1>4, <1>8, IdleOk
<1>10. ClosingTypeOK'
  <2>1. run' \in [Thread -> Runs]
    BY <1>1, <1>2, <1>4, <1>9 DEF ClosingTypeOK
  <2> QED
    BY <1>1, <1>2, <2>1 DEF ClosingTypeOK
<1>11. Apart' /\ \A u \in Thread : u # t => ThreadInv(u)' /\ FlushOf(u)'
  <2>1. \A l \in Loc : l \notin run[t].foot.writes =>
               /\ mem'[l] = mem[l] /\ file'[l] = file[l] /\ grp'[l] = grp[l]
               /\ \A g \in Group : l \in ToSet(members'[g]) => l \in ToSet(members[g])
    BY <1>1, <1>6, <1>7
  <2>2. run'[t].foot = run[t].foot \/ run'[t].foot = NoFoot
    BY <1>4, <1>8, IdleOk
  <2> QED
    BY <1>1, <1>4, <1>5, <2>1, <2>2, OthersOk, OwnFoot
<1>12. CASE Flushing(t)
  <2>1. Held(t)' = ToSet(run[t].queue) /\ Held(t)' \subseteq Held(t) /\ Coming(t)' = Coming(t)
    BY <1>5, <1>8, <1>12 DEF Held, Coming
  <2>2. x \notin ToSet(run[t].queue)
    BY <1>3 DEF ThreadInv, PointersOf
  <2>3. PlaceOf(t)'
    BY <1>8, <1>12 DEF PlaceOf, At
  <2>4. FootOf(t)'
    BY <1>1, <1>3, <1>8, <1>12, <2>1 DEF ThreadInv, FootOf
  <2>5. PointersOf(t)'
    <3>1. \A l \in ToSet(run[t].queue) : mem'[l] = "live" /\ grp'[l] = run[t].group
      BY <1>1, <1>3, <1>7, <2>2 DEF ThreadInv, PointersOf
    <3>2. run'[t].loc \notin ToSet(run[t].queue)
      BY <1>2, <1>8, <1>12, RunTyped
    <3> QED
      BY <1>3, <1>8, <1>12, <2>1, <3>1, <3>2 DEF ThreadInv, PointersOf
  <2>6. CascadeOf(t)'
    BY <1>8, <1>12 DEF CascadeOf
  <2>7. ToCloseOf(t)'
    BY <1>1, <1>3, <1>8, <1>12, <2>1 DEF ThreadInv, ToCloseOf
  <2>8. \A u \in Thread : \A l : At(u, "clear") /\ run[u].target = l => At(u, "clear")' /\ run'[u].target = l
    BY <1>4, <1>5 DEF At
  <2>9. FlushOf(t)'
    <3>1. \A l \in ToSet(members[run[t].group]) : l \in ToSet(run[t].queue) \/ mem'[l] = "freed"
      <4> SUFFICES ASSUME NEW l \in ToSet(members[run[t].group])
                   PROVE  l \in ToSet(run[t].queue) \/ mem'[l] = "freed"
        OBVIOUS
      <4>1. l \in ToSet(run[t].queue) \/ mem[l] = "freed" \/ l = x
        BY <1>3, <1>12 DEF FlushOf
      <4> QED
        BY <1>7, <4>1
    <3> QED
      BY <1>1, <1>3, <1>8, <1>12, <2>8, <3>1 DEF FlushOf
  <2> QED
    <3>1. ThreadInv(t)'
      BY <2>3, <2>4, <2>5, <2>6, <2>7 DEF ThreadInv
    <3>2. \A u \in Thread : \A l : Unlisted(u, l)' = Unlisted(u, l)
      <4> SUFFICES ASSUME NEW u \in Thread, NEW l PROVE Unlisted(u, l)' = Unlisted(u, l)
        OBVIOUS
      <4>1. CASE u = t
        BY <1>5, <1>8, <1>12, <4>1 DEF Unlisted
      <4>2. CASE u # t
        BY <1>4, <4>2 DEF Unlisted, Unlisting, Targeting
      <4> QED
        BY <4>1, <4>2
    <3>3. \A f \in File : ListsOf(f)'
      BY <1>1, <1>6, <1>7, <3>2 DEF IInv, ListsOf, Listed
    <3>4. \A l \in Loc : LiveOne(l)'
      BY <1>1, <1>7, <3>2 DEF IInv, LiveOne, Listed
    <3>5. \A f \in known' : KeptOf(f)'
      BY <1>1, <1>4, <1>8, <1>12 DEF IInv, KeptOf
    <3>6. GroupsAgree'
      <4>1. BeingFlushed' = BeingFlushed
        <5>1. \A u \in Thread : Flushing(u)' = Flushing(u) /\ run'[u].group = run[u].group
          BY <1>4, <1>8, <1>12 DEF Flushing, At
        <5> QED
          BY <5>1 DEF BeingFlushed
      <4>2. \A g \in Group \ BeingFlushed : x \notin ToSet(members[g])
        BY <1>6 DEF IInv, GroupsAgree
      <4> QED
        BY <1>1, <1>7, <2>8, <4>1, <4>2 DEF IInv, GroupsAgree
    <3> QED
      BY <1>10, <1>11, <2>9, <3>1, <3>3, <3>4, <3>5, <3>6 DEF IInv
<1>13. CASE ~Flushing(t)
  <2>1. run'[t] = Idle
    BY <1>4, <1>13
  <2>2. \A u \in Thread : \A l : At(u, "clear") /\ run[u].target = l => At(u, "clear")' /\ run'[u].target = l
    BY <1>4, <1>5 DEF At
  <2>3. \A u \in Thread : \A l : Unlisted(u, l)' = Unlisted(u, l)
    <3> SUFFICES ASSUME NEW u \in Thread, NEW l PROVE Unlisted(u, l)' = Unlisted(u, l)
      OBVIOUS
    <3>1. CASE u = t
      BY <1>5, <2>1, <3>1, IdleOk DEF Unlisted
    <3>2. CASE u # t
      BY <1>4, <3>2 DEF Unlisted, Unlisting, Targeting
    <3> QED
      BY <3>1, <3>2
  <2>4. \A f \in File : ListsOf(f)'
    BY <1>1, <1>6, <1>7, <2>3 DEF IInv, ListsOf, Listed
  <2>5. \A l \in Loc : LiveOne(l)'
    BY <1>1, <1>7, <2>3 DEF IInv, LiveOne, Listed
  <2>6. run[t].foot.closes \cap known = {}
    <3>1. run[t].queue = <<>> /\ run[t].closing = NoFile
      BY <1>3, <1>4, <1>5, <1>13 DEF ThreadInv, PlaceOf, Flushing, At
    <3>2. ToSet(run[t].queue) = {}
      BY <3>1 DEF ToSet
    <3> QED
      BY <1>5, <3>1, <3>2, AllClosed
  <2>7. ASSUME NEW f \in known' PROVE KeptOf(f)'
    <3>1. f \in known /\ KeptOf(f) /\ f \notin run[t].foot.closes
      BY <1>1, <2>6, <2>7 DEF IInv
    <3>2. run'[t].foot.writes = {}
      BY <2>1, IdleOk
    <3>3. CASE \E u \in Thread : f \in run[u].foot.closes
      BY <1>4, <3>1, <3>3 DEF KeptOf
    <3>4. CASE \E p \in ToSet(prim[f]) : \A u \in Thread : p \notin run[u].foot.writes
      BY <1>1, <1>4, <3>2, <3>4 DEF KeptOf
    <3> QED
      BY <3>1, <3>3, <3>4 DEF KeptOf
  <2>8. GroupsAgree'
    <3>1. BeingFlushed' = BeingFlushed
      <4>1. \A u \in Thread : Flushing(u)' = Flushing(u) /\ (Flushing(u) => run'[u].group = run[u].group)
        BY <1>4, <1>13, <2>1, IdleOk DEF Flushing, At
      <4> QED
        BY <4>1 DEF BeingFlushed
    <3>2. \A g \in Group \ BeingFlushed : x \notin ToSet(members[g])
      BY <1>6 DEF IInv, GroupsAgree
    <3> QED
      BY <1>1, <1>7, <2>2, <3>1, <3>2 DEF IInv, GroupsAgree
  <2>9. ThreadInv(t)' /\ FlushOf(t)'
    BY <2>1, IdleOk
  <2> QED
    BY <1>10, <1>11, <2>4, <2>5, <2>7, <2>8, <2>9 DEF IInv
<1> QED
  BY <1>12, <1>13

\* Looking at what a thread does tells whether it flushes a group.
LEMMA SameFlushed ==
    ASSUME \A u \in Thread : /\ Flushing(u)' = Flushing(u)
                             /\ Flushing(u) => run'[u].group = run[u].group
    PROVE  BeingFlushed' = BeingFlushed
  BY DEF BeingFlushed

\* The groups are as they were after a step that changes none, nor takes a
\* thread to or from the place where its locator is in no group.
LEMMA SameGroups ==
    ASSUME IInv, mem' = mem, grp' = grp, members' = members,
           \A u \in Thread : /\ Flushing(u)' = Flushing(u)
                             /\ Flushing(u) => run'[u].group = run[u].group
                             /\ At(u, "clear") => At(u, "clear")' /\ run'[u].target = run[u].target
    PROVE  GroupsAgree'
<1>1. BeingFlushed' = BeingFlushed
  BY SameFlushed
<1> QED
  BY <1>1 DEF IInv, GroupsAgree

\* The next locator of the cascade is taken out of the list.
LEMMA PopInv ==
    ASSUME IInv, NEW t \in Thread, Pop(t)
    PROVE  IInv'
<1> DEFINE f == run[t].closing
           y == IF sec[f] # <<>> THEN Head(sec[f]) ELSE run[t].loc
<1>1. /\ At(t, "pop")
      /\ sec' = IF sec[f] # <<>> THEN [sec EXCEPT ![f] = Tail(@)] ELSE sec
      /\ run' = [run EXCEPT ![t].pc = "ingroup", ![t].target = y]
      /\ UNCHANGED <<mem, file, grp, prim, known, members, mutex>>
  BY DEF Pop, locVars
<1>2. ClosingTypeOK
  BY DEF IInv
<1>3. ThreadInv(t) /\ FlushOf(t)
  BY DEF IInv
<1>4. /\ run[t].pc = "pop" /\ run[t].loc # NoLoc /\ run[t].loc \in Loc /\ f # NoFile /\ f \in File
  <2>1. run[t].pc = "pop"
    BY <1>1 DEF At
  <2> QED
    BY <1>2, <1>3, <2>1, RunTyped DEF ThreadInv, PlaceOf, Annulling
<1>5. /\ f \in run[t].foot.closes /\ f \in run[t].foot.files /\ f \in known
      /\ prim[f] = <<>> /\ ToSet(sec[f]) \subseteq run[t].foot.writes
  BY <1>3, <1>4 DEF ThreadInv, CascadeOf, FootOf, ToCloseOf
<1>6. sec[f] \in Seq(Loc) /\ IsInjective(sec[f])
  BY <1>2, <1>4 DEF IInv, ClosingTypeOK, ListsOf
<1>7. /\ sec'[f] \in Seq(Loc) /\ IsInjective(sec'[f]) /\ y \in Loc /\ y \notin ToSet(sec'[f])
      /\ ToSet(sec[f]) = ToSet(sec'[f]) \cup {l \in ToSet(sec[f]) : l = y}
      /\ y \in ToSet(sec[f]) \/ (y = run[t].loc /\ sec[f] = <<>> /\ sec'[f] = <<>>)
      /\ \A g \in File : g # f => sec'[g] = sec[g]
      /\ sec' \in [File -> Seq(Loc)]
  <2>1. CASE sec[f] = <<>>
    <3>1. sec' = sec /\ y = run[t].loc
      BY <1>1, <2>1
    <3>2. ToSet(sec[f]) = {}
      BY <2>1 DEF ToSet
    <3> QED
      BY <1>2, <1>4, <1>6, <2>1, <3>1, <3>2 DEF ClosingTypeOK
  <2>2. CASE sec[f] # <<>>
    <3>1. sec' = [sec EXCEPT ![f] = Tail(sec[f])] /\ y = Head(sec[f])
      BY <1>1, <2>2
    <3>2. sec'[f] = Tail(sec[f]) /\ \A g \in File : g # f => sec'[g] = sec[g]
      BY <1>2, <1>4, <3>1 DEF ClosingTypeOK
    <3>3. /\ y \in ToSet(sec[f]) /\ y \in Loc /\ Tail(sec[f]) \in Seq(Loc)
          /\ ToSet(sec[f]) = {y} \cup ToSet(Tail(sec[f]))
          /\ IsInjective(Tail(sec[f])) /\ y \notin ToSet(Tail(sec[f]))
      BY <1>6, <2>2, <3>1, TailOk
    <3>4. sec' \in [File -> Seq(Loc)]
      BY <1>2, <3>1, <3>3 DEF ClosingTypeOK
    <3> HIDE DEF y
    <3> QED
      BY <3>2, <3>3, <3>4
  <2> QED
    BY <2>1, <2>2
<1> HIDE DEF y
<1>8. /\ run'[t].pc = "ingroup" /\ run'[t].target = y
      /\ run'[t].group = run[t].group /\ run'[t].queue = run[t].queue
      /\ run'[t].loc = run[t].loc
      /\ run'[t].closing = run[t].closing /\ run'[t].foot = run[t].foot
      /\ \A u \in Thread : u # t => run'[u] = run[u]
  BY <1>1, <1>2, RunTyped DEF ClosingTypeOK, Runs
<1>9. /\ ~Targeting(t) /\ Targeting(t)' /\ Unlisting(t) /\ Unlisting(t)'
      /\ Annulling(t)' /\ Annulling(t) /\ Flushing(t)' = Flushing(t) /\ Coming(t)' = Coming(t)
      /\ ~At(t, "clear") /\ ~At(t, "clear")' /\ ~At(t, "close")'
  BY <1>4, <1>8 DEF Targeting, Unlisting, Annulling, Flushing, Coming, At
<1>10. ClosingTypeOK'
  <2>1. [run[t] EXCEPT !.pc = "ingroup", !.target = y] \in Runs
    BY <1>2, <1>7, RunTyped DEF Runs, PcKind
  <2>2. run' = [run EXCEPT ![t] = [run[t] EXCEPT !.pc = "ingroup", !.target = y]]
    BY <1>1, <1>2 DEF ClosingTypeOK
  <2>3. run' \in [Thread -> Runs]
    BY <1>2, <2>1, <2>2 DEF ClosingTypeOK
  <2> QED
    BY <1>1, <1>2, <1>7, <2>3 DEF ClosingTypeOK
<1>11. Apart' /\ \A u \in Thread : u # t => ThreadInv(u)' /\ FlushOf(u)'
  <2>1. \A g \in File : g \notin run[t].foot.files =>
               prim'[g] = prim[g] /\ sec'[g] = sec[g] /\ (g \in known' <=> g \in known)
    BY <1>1, <1>5, <1>7
  <2>2. mem' = mem /\ file' = file /\ grp' = grp /\ members' = members /\ mutex' = mutex
    BY <1>1
  <2> QED
    BY <1>8, <1>9, <2>1, <2>2, OthersOk, OwnFoot
<1>12. y \in run[t].foot.writes /\ mem[y] \in {"live", "cleared"} /\ y # NoLoc
  <2>1. CASE y \in ToSet(sec[f])
    BY <1>4, <1>5, <1>7, <2>1 DEF IInv, ListsOf, Listed
  <2>2. CASE y = run[t].loc
    BY <1>3, <1>4, <1>7, <2>2 DEF ThreadInv, FootOf, PointersOf, Held
  <2> QED
    BY <1>7, <2>1, <2>2
<1>13. Held(t)' \subseteq Held(t) \cup {y}
  BY <1>8 DEF Held
<1>14. y = run[t].loc => sec'[f] = <<>>
  <2> SUFFICES ASSUME y \in ToSet(sec[f]) PROVE y # run[t].loc
    BY <1>7
  <2> QED
    BY <1>4, <1>9 DEF IInv, ListsOf, Listed, Unlisted
<1>15. ThreadInv(t)'
  <2>1. PlaceOf(t)'
    BY <1>3, <1>4, <1>8, <1>9, <1>12 DEF ThreadInv, PlaceOf, At
  <2>2. FootOf(t)'
    BY <1>1, <1>3, <1>8, <1>12, <1>13 DEF ThreadInv, FootOf
  <2>3. PointersOf(t)'
    BY <1>1, <1>3, <1>8, <1>9, <1>12, <1>13 DEF ThreadInv, PointersOf
  <2>4. CascadeOf(t)'
    BY <1>1, <1>3, <1>5, <1>8, <1>9, <1>14 DEF CascadeOf
  <2>5. ToCloseOf(t)'
    <3> SUFFICES ASSUME NEW g \in run[t].foot.closes \cap known
                 PROVE  /\ ToSet(sec'[g]) \subseteq run[t].foot.writes
                        /\ f = g \/ (prim[g] # <<>> /\ ToSet(prim[g]) \subseteq Coming(t))
      BY <1>1, <1>8, <1>9 DEF ToCloseOf
    <3>1. g \in File
      BY <1>2 DEF ClosingTypeOK
    <3> QED
      BY <1>3, <1>5, <1>7, <3>1 DEF ThreadInv, ToCloseOf
  <2> QED
    BY <2>1, <2>2, <2>3, <2>4, <2>5 DEF ThreadInv
<1>16. \A u \in Thread : At(u, "clear") => At(u, "clear")' /\ run'[u].target = run[u].target
  BY <1>8, <1>9 DEF At
<1>17. FlushOf(t)'
  BY ZenonT(40), <1>1, <1>3, <1>8, <1>9, <1>16 DEF FlushOf
<1>18. ASSUME NEW u \in Thread, NEW l
       PROVE  Unlisted(u, l)' <=> Unlisted(u, l) \/ (u = t /\ l = y)
  <2>1. CASE u = t
    BY <1>8, <1>9, <2>1 DEF Unlisted
  <2>2. CASE u # t
    BY <1>8, <2>2 DEF Unlisted, Unlisting, Targeting
  <2> QED
    BY <2>1, <2>2
<1>19. ASSUME NEW g \in File
       PROVE  y \notin Listed(g)' /\ Listed(g)' \subseteq Listed(g) /\ Listed(g) \subseteq Listed(g)' \cup {y}
  <2>1. ListsOf(g) /\ ListsOf(f)
    BY <1>4 DEF IInv
  <2>2. CASE g = f
    <3>1. ToSet(prim[f]) = {}
      BY <1>5 DEF ToSet
    <3> QED
      BY <1>1, <1>7, <2>2, <3>1 DEF Listed
  <2>3. CASE g # f
    <3>1. Listed(g)' = Listed(g)
      BY <1>1, <1>7, <2>3 DEF Listed
    <3>2. y \notin Listed(g)
      <4>1. CASE y \in ToSet(sec[f])
        BY <2>1, <2>3, <4>1 DEF ListsOf, Listed
      <4>2. CASE y = run[t].loc
        BY <1>9, <2>1, <4>2 DEF ListsOf, Unlisted
      <4> QED
        BY <1>7, <4>1, <4>2
    <3> QED
      BY <3>1, <3>2
  <2> QED
    BY <2>2, <2>3
<1>20. ASSUME NEW g \in File PROVE ListsOf(g)'
  <2>1. ListsOf(g)
    BY DEF IInv
  <2>2. /\ IsInjective(prim'[g]) /\ IsInjective(sec'[g]) /\ ToSet(prim'[g]) \cap ToSet(sec'[g]) = {}
    BY <1>1, <1>7, <2>1 DEF ListsOf
  <2>3. \A l \in Listed(g)' :
           mem'[l] = "live" /\ file'[l] = g /\ \A u \in Thread : ~Unlisted(u, l)'
    BY <1>1, <1>18, <1>19, <2>1 DEF ListsOf
  <2> QED
    BY <2>2, <2>3 DEF ListsOf
<1>21. ASSUME NEW l \in Loc PROVE LiveOne(l)'
  <2> SUFFICES ASSUME mem[l] = "live"
               PROVE  /\ file[l] \in known
                      /\ l \in Listed(file[l])' \/ \E u \in Thread : Unlisted(u, l)'
    BY <1>1 DEF LiveOne, Listed
  <2>1. file[l] \in known /\ (l \in Listed(file[l]) \/ \E u \in Thread : Unlisted(u, l))
    BY DEF IInv, LiveOne
  <2>2. PICK g \in File : g = file[l] /\ g = file'[l]
    BY <1>1, <1>2, <2>1 DEF ClosingTypeOK
  <2>3. l \in Listed(g) => l \in Listed(g)' \/ l = y
    BY <1>19
  <2> QED
    BY <1>18, <2>1, <2>2, <2>3
<1>22. ASSUME NEW g \in known' PROVE KeptOf(g)'
  <2>1. KeptOf(g)
    BY <1>1, <1>22 DEF IInv
  <2>2. \A u \in Thread : run'[u].foot = run[u].foot
    BY <1>8
  <2> QED
    BY <1>1, <2>1, <2>2 DEF KeptOf
<1>23. GroupsAgree'
  <2>1. \A u \in Thread : Flushing(u)' = Flushing(u) /\ run'[u].group = run[u].group
    BY <1>8, <1>9 DEF Flushing, At
  <2> QED
    BY <1>1, <1>16, <2>1, SameGroups
<1> QED
  BY <1>10, <1>11, <1>15, <1>17, <1>20, <1>21, <1>22, <1>23 DEF IInv

\* The locator is taken out of the lists, and if it was the last primary one
\* the cascade begins.
LEMMA UnregisterInv ==
    ASSUME IInv, NEW t \in Thread, Unregister(t)
    PROVE  IInv'
<1> DEFINE x == run[t].loc
           next == IF LastPrimary(x) THEN "pop" ELSE "ingroup"
           shuts == IF LastPrimary(x) THEN file[x] ELSE NoFile
<1>1. /\ At(t, "unregister")
      /\ prim' = [f \in File |-> Without(prim[f], x)]
      /\ sec' = [f \in File |-> Without(sec[f], x)]
      /\ run' = [run EXCEPT ![t].pc = next, ![t].target = x, ![t].closing = shuts]
      /\ UNCHANGED <<mem, file, grp, known, members, mutex>>
  BY DEF Unregister, locVars
<1>2. ClosingTypeOK
  BY DEF IInv
<1>3. ThreadInv(t) /\ FlushOf(t)
  BY DEF IInv
<1>4. run[t].pc = "unregister" /\ x # NoLoc /\ x \in Loc /\ run[t].closing = NoFile
  <2>1. run[t].pc = "unregister"
    BY <1>1 DEF At
  <2> QED
    BY <1>2, <1>3, <2>1, RunTyped DEF ThreadInv, PlaceOf, Annulling
<1>5. x \in Held(t) /\ x \in run[t].foot.writes
  BY <1>3, <1>4 DEF Held, ThreadInv, FootOf
<1>6. ASSUME NEW f \in File
      PROVE  /\ prim[f] \in Seq(Loc) /\ sec[f] \in Seq(Loc)
             /\ prim'[f] \in Seq(Loc) /\ IsInjective(prim'[f])
             /\ sec'[f] \in Seq(Loc) /\ IsInjective(sec'[f])
             /\ ToSet(prim'[f]) = ToSet(prim[f]) \ {x} /\ ToSet(sec'[f]) = ToSet(sec[f]) \ {x}
             /\ Listed(f)' = Listed(f) \ {x}
             /\ x \in Listed(f) => mem[x] = "live" /\ file[x] = f /\ f \in run[t].foot.files
             /\ x \notin Listed(f) => prim'[f] = prim[f] /\ sec'[f] = sec[f]
  <2>1. /\ prim[f] \in Seq(Loc) /\ sec[f] \in Seq(Loc) /\ ListsOf(f)
    BY <1>2 DEF IInv, ClosingTypeOK
  <2>2. IsInjective(prim[f]) /\ IsInjective(sec[f])
    BY <2>1 DEF ListsOf
  <2>3. prim'[f] = Without(prim[f], x) /\ sec'[f] = Without(sec[f], x)
    BY <1>1
  <2>4. /\ Without(prim[f], x) \in Seq(Loc) /\ IsInjective(Without(prim[f], x))
        /\ ToSet(Without(prim[f], x)) = ToSet(prim[f]) \ {x}
    BY <2>1, <2>2, WithoutOk
  <2>5. /\ Without(sec[f], x) \in Seq(Loc) /\ IsInjective(Without(sec[f], x))
        /\ ToSet(Without(sec[f], x)) = ToSet(sec[f]) \ {x}
    BY <2>1, <2>2, WithoutOk
  <2>6. Listed(f)' = Listed(f) \ {x}
    BY <2>3, <2>4, <2>5 DEF Listed
  <2>7. ASSUME x \in Listed(f) PROVE mem[x] = "live" /\ file[x] = f /\ f \in run[t].foot.files
    <3>1. mem[x] = "live" /\ file[x] = f
      BY <2>1, <2>7 DEF ListsOf
    <3> QED
      BY <1>3, <1>5, <3>1 DEF ThreadInv, FootOf
  <2>8. ASSUME x \notin Listed(f) PROVE prim'[f] = prim[f] /\ sec'[f] = sec[f]
    BY <2>3, <2>8 DEF Listed, Without
  <2> QED
    BY <2>1, <2>3, <2>4, <2>5, <2>6, <2>7, <2>8
<1>7. ASSUME LastPrimary(x)
      PROVE  /\ file[x] \in File /\ file[x] \in known /\ file[x] \in run[t].foot.closes
             /\ prim'[file[x]] = <<>>
  <2>1. file[x] \in File /\ prim[file[x]] = <<x>>
    BY <1>2, <1>4, <1>7 DEF LastPrimary, ClosingTypeOK
  <2>2. PICK f \in File : f = file[x]
    BY <2>1
  <2>3. ToSet(prim[f]) = {x}
    BY <2>1, <2>2, ShortLists, <1>6
  <2>4. x \in Listed(f)
    BY <2>3 DEF Listed
  <2>5. mem[x] = "live" /\ f \in run[t].foot.files
    BY <1>6, <2>4
  <2>6. f \in known
    BY <1>4, <2>2, <2>5 DEF IInv, LiveOne
  <2>7. f \in run[t].foot.closes
    <3>1. CASE \E u \in Thread : f \in run[u].foot.closes
      <4>1. PICK u \in Thread : f \in run[u].foot.closes
        BY <3>1
      <4> QED
        BY <2>5, <4>1, FootsApart
    <3>2. CASE \E p \in ToSet(prim[f]) : \A u \in Thread : p \notin run[u].foot.writes
      BY <1>5, <2>3, <3>2
    <3> QED
      BY <2>6, <3>1, <3>2 DEF IInv, KeptOf
  <2>8. prim'[f] = <<>>
    <3>1. prim'[f] \in Seq(Loc) /\ ToSet(prim'[f]) = {}
      BY <1>6, <2>3
    <3> QED
      BY <3>1, ShortLists
  <2> QED
    BY <2>2, <2>6, <2>7, <2>8
<1>8. /\ next \in {"pop", "ingroup"} /\ shuts \in File \cup {NoFile}
      /\ (next = "pop" <=> shuts # NoFile)
      /\ shuts # NoFile => /\ shuts = file[x] /\ LastPrimary(x) /\ shuts \in known
                           /\ shuts \in run[t].foot.closes /\ prim'[shuts] = <<>>
  BY <1>7
<1>9. ~LastPrimary(x) => shuts = NoFile
  OBVIOUS
<1> HIDE DEF next, shuts
<1>10. /\ run'[t].pc = next /\ run'[t].target = x
       /\ run'[t].group = run[t].group /\ run'[t].queue = run[t].queue
       /\ run'[t].loc = x
       /\ run'[t].closing = shuts /\ run'[t].foot = run[t].foot
       /\ \A u \in Thread : u # t => run'[u] = run[u]
  BY <1>1, <1>2, RunTyped DEF ClosingTypeOK, Runs
<1>11. /\ ~Targeting(t) /\ ~Unlisting(t) /\ Unlisting(t)'
       /\ Annulling(t)' /\ Annulling(t) /\ Flushing(t)' = Flushing(t)
       /\ ~At(t, "clear") /\ ~At(t, "clear")' /\ ~At(t, "close")' /\ ~At(t, "unregister")'
       /\ Coming(t) = Coming(t)' \cup {x}
       /\ Targeting(t)' => next = "ingroup"
  BY <1>4, <1>8, <1>10 DEF Targeting, Unlisting, Annulling, Flushing, Coming, At
<1>12. ClosingTypeOK'
  <2>1. [run[t] EXCEPT !.pc = next, !.target = x, !.closing = shuts] \in Runs
    <3>1. next \in PcKind
      BY <1>8 DEF PcKind
    <3> QED
      BY <1>2, <1>4, <1>8, <3>1, RunTyped DEF Runs
  <2>2. run' = [run EXCEPT ![t] = [run[t] EXCEPT !.pc = next, !.target = x, !.closing = shuts]]
    BY <1>1, <1>2 DEF ClosingTypeOK
  <2>3. run' \in [Thread -> Runs]
    BY <1>2, <2>1, <2>2 DEF ClosingTypeOK
  <2>4. prim' \in [File -> Seq(Loc)] /\ sec' \in [File -> Seq(Loc)]
    <3>1. /\ prim' = [f \in File |-> prim'[f]] /\ sec' = [f \in File |-> sec'[f]]
      BY <1>1
    <3> QED
      BY <1>6, <3>1
  <2> QED
    BY <1>1, <1>2, <2>3, <2>4 DEF ClosingTypeOK
<1>13. Apart' /\ \A u \in Thread : u # t => ThreadInv(u)' /\ FlushOf(u)'
  <2>1. \A g \in File : g \notin run[t].foot.files =>
               prim'[g] = prim[g] /\ sec'[g] = sec[g] /\ (g \in known' <=> g \in known)
    BY <1>1, <1>6
  <2>2. mem' = mem /\ file' = file /\ grp' = grp /\ members' = members /\ mutex' = mutex
    BY <1>1
  <2> QED
    BY <1>10, <1>11, <2>1, <2>2, OthersOk, OwnFoot
<1>14. Held(t)' = Held(t)
  <2>1. run[t].target = NoLoc
    BY <1>3, <1>4 DEF ThreadInv, PlaceOf
  <2> QED
    BY <1>4, <1>10, <2>1 DEF Held
<1>15. ThreadInv(t)'
  <2>1. PlaceOf(t)'
    BY <1>3, <1>4, <1>8, <1>10, <1>11 DEF ThreadInv, PlaceOf, At
  <2>2. FootOf(t)'
    BY <1>1, <1>3, <1>10, <1>14 DEF ThreadInv, FootOf
  <2>3. PointersOf(t)'
    BY <1>1, <1>3, <1>8, <1>10, <1>11, <1>14 DEF ThreadInv, PointersOf
  <2>4. CascadeOf(t)'
    BY <1>1, <1>8, <1>10, <1>11 DEF CascadeOf
  <2>5. ToCloseOf(t)'
    <3> SUFFICES ASSUME NEW g \in run[t].foot.closes \cap known, g \in File
                 PROVE  /\ ToSet(sec'[g]) \subseteq run[t].foot.writes
                        /\ shuts = g \/ (prim'[g] # <<>> /\ ToSet(prim'[g]) \subseteq Coming(t)')
      BY <1>1, <1>2, <1>10 DEF ToCloseOf, ClosingTypeOK
    <3>1. /\ ToSet(sec[g]) \subseteq run[t].foot.writes
          /\ prim[g] # <<>> /\ ToSet(prim[g]) \subseteq Coming(t)
      BY <1>3, <1>4 DEF ThreadInv, ToCloseOf
    <3>5. /\ ToSet(prim'[g]) = ToSet(prim[g]) \ {x} /\ ToSet(sec'[g]) = ToSet(sec[g]) \ {x}
          /\ prim[g] \in Seq(Loc)
      BY <1>6
    <3>2. ToSet(prim'[g]) \subseteq Coming(t)' /\ ToSet(sec'[g]) \subseteq run[t].foot.writes
      BY <1>11, <3>1, <3>5
    <3>3. ASSUME prim'[g] = <<>> PROVE shuts = g
      <4>1. ToSet(prim[g]) \subseteq {x} /\ ToSet(prim[g]) # {}
        <5>1. ToSet(prim'[g]) = {}
          BY <3>3 DEF ToSet
        <5>2. ToSet(prim[g]) # {}
          BY <3>1, <3>5, ShortLists
        <5> QED
          BY <3>5, <5>1, <5>2
      <4>2. ToSet(prim[g]) = {x} /\ x \in Listed(g)
        BY <4>1 DEF Listed
      <4>3. IsInjective(prim[g]) /\ prim[g] \in Seq(Loc) /\ file[x] = g
        BY <1>6, <4>2 DEF IInv, ListsOf
      <4>4. prim[g] = <<x>>
        BY <4>2, <4>3, ShortLists
      <4>5. LastPrimary(x)
        BY <4>3, <4>4 DEF LastPrimary
      <4> QED
        BY <4>3, <4>5 DEF shuts
    <3> QED
      BY <3>2, <3>3
  <2> QED
    BY <2>1, <2>2, <2>3, <2>4, <2>5 DEF ThreadInv
<1>16. \A u \in Thread : At(u, "clear") => At(u, "clear")' /\ run'[u].target = run[u].target
  BY <1>10, <1>11 DEF At
<1>17. FlushOf(t)'
  BY ZenonT(40), <1>1, <1>3, <1>10, <1>11, <1>16 DEF FlushOf
<1>18. ASSUME NEW u \in Thread, NEW l
       PROVE  Unlisted(u, l)' <=> Unlisted(u, l) \/ (u = t /\ l = x)
  <2>1. CASE u = t
    BY <1>10, <1>11, <2>1 DEF Unlisted
  <2>2. CASE u # t
    BY <1>10, <2>2 DEF Unlisted, Unlisting, Targeting
  <2> QED
    BY <2>1, <2>2
<1>19. ASSUME NEW g \in File PROVE ListsOf(g)'
  <2>1. ListsOf(g)
    BY DEF IInv
  <2>2. /\ IsInjective(prim'[g]) /\ IsInjective(sec'[g]) /\ ToSet(prim'[g]) \cap ToSet(sec'[g]) = {}
    BY <1>6, <2>1 DEF ListsOf
  <2>3. \A l \in Listed(g)' :
           mem'[l] = "live" /\ file'[l] = g /\ \A u \in Thread : ~Unlisted(u, l)'
    BY <1>1, <1>6, <1>18, <2>1 DEF ListsOf
  <2> QED
    BY <2>2, <2>3 DEF ListsOf
<1>20. ASSUME NEW l \in Loc PROVE LiveOne(l)'
  <2> SUFFICES ASSUME mem[l] = "live"
               PROVE  /\ file[l] \in known
                      /\ l \in Listed(file[l])' \/ \E u \in Thread : Unlisted(u, l)'
    BY <1>1 DEF LiveOne, Listed
  <2>1. file[l] \in known /\ (l \in Listed(file[l]) \/ \E u \in Thread : Unlisted(u, l))
    BY DEF IInv, LiveOne
  <2>2. PICK g \in File : g = file[l] /\ g = file'[l]
    BY <1>1, <1>2, <2>1 DEF ClosingTypeOK
  <2>3. l \in Listed(g) => l \in Listed(g)' \/ l = x
    BY <1>6
  <2> QED
    BY <1>18, <2>1, <2>2, <2>3
<1>21. ASSUME NEW g \in known' PROVE KeptOf(g)'
  <2>1. KeptOf(g) /\ g \in File
    BY <1>1, <1>2, <1>21 DEF IInv, ClosingTypeOK
  <2>2. \A u \in Thread : run'[u].foot = run[u].foot
    BY <1>10
  <2>3. \A p \in ToSet(prim[g]) : p \notin run[t].foot.writes => p \in ToSet(prim'[g])
    BY <1>5, <1>6, <2>1
  <2> QED
    BY <2>1, <2>2, <2>3 DEF KeptOf
<1>22. GroupsAgree'
  <2>1. \A u \in Thread : Flushing(u)' = Flushing(u) /\ run'[u].group = run[u].group
    BY <1>10, <1>11 DEF Flushing, At
  <2> QED
    BY <1>1, <1>16, <2>1, SameGroups
<1> QED
  BY <1>12, <1>13, <1>15, <1>17, <1>19, <1>20, <1>21, <1>22 DEF IInv

\* hdsFlush goes on to the next locator of the group.
LEMMA NextElementInv ==
    ASSUME IInv, NEW t \in Thread, NextElement(t)
    PROVE  IInv'
<1> DEFINE x == Head(run[t].queue)
           rest == Tail(run[t].queue)
<1>1. /\ At(t, "next") /\ run[t].queue # <<>>
      /\ grp' = [grp EXCEPT ![x] = NoGroup]
      /\ run' = [run EXCEPT ![t].pc = "unregister", ![t].loc = x, ![t].queue = rest]
      /\ UNCHANGED <<mem, file, prim, sec, known, members, mutex>>
  <2>1. run' = [run EXCEPT ![t].pc = "unregister", ![t].loc = x, ![t].queue = Tail(@)]
    BY DEF NextElement
  <2> QED
    BY <2>1 DEF NextElement
<1>2. ClosingTypeOK
  BY DEF IInv
<1>3. ThreadInv(t) /\ FlushOf(t)
  BY DEF IInv
<1>4. /\ run[t].pc = "next" /\ run[t].loc = NoLoc /\ run[t].target = NoLoc
      /\ run[t].closing = NoFile /\ run[t].group # NoGroup
  <2>1. run[t].pc = "next"
    BY <1>1 DEF At
  <2> QED
    BY <1>3, <2>1 DEF ThreadInv, PlaceOf, At
<1>5. /\ x \in Loc /\ rest \in Seq(Loc) /\ IsInjective(rest) /\ x \notin ToSet(rest)
      /\ ToSet(run[t].queue) = {x} \cup ToSet(rest)
  <2>1. run[t].queue \in Seq(Loc) /\ IsInjective(run[t].queue)
    BY <1>2, <1>3, RunTyped DEF ThreadInv, PointersOf
  <2> QED
    BY <1>1, <2>1, TailOk
<1> HIDE DEF x, rest
<1>6. x # NoLoc /\ x \in run[t].foot.writes /\ mem[x] = "live" /\ grp[x] = run[t].group
  BY <1>3, <1>5 DEF ThreadInv, FootOf, PointersOf, Held
<1>7. grp'[x] = NoGroup /\ \A l : l # x => grp'[l] = grp[l]
  <2>1. grp'[x] = NoGroup
    BY <1>1, <1>2, <1>5 DEF ClosingTypeOK
  <2> QED
    BY <1>1, <1>2, <2>1 DEF ClosingTypeOK
<1>8. /\ run'[t].pc = "unregister" /\ run'[t].loc = x /\ run'[t].queue = rest
      /\ run'[t].group = run[t].group /\ run'[t].target = NoLoc
      /\ run'[t].closing = NoFile /\ run'[t].foot = run[t].foot
      /\ \A u \in Thread : u # t => run'[u] = run[u]
  BY <1>1, <1>2, <1>4, RunTyped DEF ClosingTypeOK, Runs
<1>9. /\ ~Targeting(t) /\ ~Targeting(t)' /\ ~Unlisting(t) /\ ~Unlisting(t)'
      /\ Annulling(t)' /\ Flushing(t) /\ Flushing(t)' /\ At(t, "unregister")'
      /\ ~At(t, "clear") /\ ~At(t, "clear")'
      /\ Coming(t)' = Coming(t) /\ Held(t)' = Held(t)
  BY <1>4, <1>5, <1>6, <1>8 DEF Targeting, Unlisting, Annulling, Flushing, Coming, Held, At
<1>10. ClosingTypeOK'
  <2>1. [run[t] EXCEPT !.pc = "unregister", !.loc = x, !.queue = rest] \in Runs
    BY <1>2, <1>5, RunTyped DEF Runs, PcKind
  <2>2. run' = [run EXCEPT ![t] = [run[t] EXCEPT !.pc = "unregister", !.loc = x, !.queue = rest]]
    BY <1>1, <1>2 DEF ClosingTypeOK
  <2>3. run' \in [Thread -> Runs]
    BY <1>2, <2>1, <2>2 DEF ClosingTypeOK
  <2> QED
    BY <1>1, <1>2, <2>3 DEF ClosingTypeOK
<1>11. Apart' /\ \A u \in Thread : u # t => ThreadInv(u)' /\ FlushOf(u)'
  <2>1. \A l \in Loc : l \notin run[t].foot.writes =>
               /\ mem'[l] = mem[l] /\ file'[l] = file[l] /\ grp'[l] = grp[l]
               /\ \A g \in Group : l \in ToSet(members'[g]) => l \in ToSet(members[g])
    BY <1>1, <1>6, <1>7
  <2>2. \A l \in Loc : grp'[l] # NoGroup => grp'[l] = grp[l]
    BY <1>7
  <2> QED
    BY <1>1, <1>8, <1>9, <2>1, <2>2, OthersOk, OwnFoot
<1>12. ThreadInv(t)'
  <2>1. PlaceOf(t)'
    BY <1>4, <1>6, <1>8, <1>9 DEF PlaceOf, At
  <2>2. FootOf(t)'
    BY <1>1, <1>3, <1>8, <1>9 DEF ThreadInv, FootOf
  <2>3. PointersOf(t)'
    <3>1. \A l \in ToSet(rest) : mem'[l] = "live" /\ grp'[l] = run[t].group
      BY <1>1, <1>3, <1>5, <1>7 DEF ThreadInv, PointersOf
    <3> QED
      BY <1>1, <1>3, <1>5, <1>8, <1>9, <3>1 DEF ThreadInv, PointersOf
  <2>4. CascadeOf(t)'
    BY <1>8 DEF CascadeOf
  <2>5. ToCloseOf(t)'
    BY <1>1, <1>3, <1>4, <1>8, <1>9 DEF ThreadInv, ToCloseOf
  <2> QED
    BY <2>1, <2>2, <2>3, <2>4, <2>5 DEF ThreadInv
<1>13. \A u \in Thread : \A l : At(u, "clear") /\ run[u].target = l => At(u, "clear")' /\ run'[u].target = l
  BY <1>8, <1>9 DEF At
<1>14. FlushOf(t)'
  <2>1. members[run[t].group] \in Seq(Loc)
    BY <1>2, <1>4, RunTyped DEF ClosingTypeOK
  <2>2. ToSet(members[run[t].group]) \subseteq Loc
    BY <2>1 DEF ToSet
  <2>3. \A l \in ToSet(members[run[t].group]) : l \in ToSet(rest) \/ mem[l] = "freed" \/ l = x
    BY <1>3, <1>4, <1>5, <1>9, <2>2 DEF FlushOf
  <2>4. \A l \in Loc : grp'[l] = run[t].group => l # x /\ grp[l] = run[t].group
    BY <1>4, <1>7
  <2>5. \A l \in Loc : grp'[l] = run[t].group =>
                \/ l \in ToSet(rest)
                \/ \E u \in Thread : At(u, "clear")' /\ run'[u].target = l
    BY <1>3, <1>5, <1>9, <1>13, <2>4 DEF FlushOf
  <2> QED
    BY <1>1, <1>3, <1>8, <1>9, <2>3, <2>5 DEF FlushOf
<1>15. \A u \in Thread : \A l : Unlisted(u, l)' = Unlisted(u, l)
  <2> SUFFICES ASSUME NEW u \in Thread, NEW l PROVE Unlisted(u, l)' = Unlisted(u, l)
    OBVIOUS
  <2>1. CASE u = t
    BY <1>9, <2>1 DEF Unlisted
  <2>2. CASE u # t
    BY <1>8, <2>2 DEF Unlisted, Unlisting, Targeting
  <2> QED
    BY <2>1, <2>2
<1>16. \A f \in File : ListsOf(f)'
  BY <1>1, <1>15 DEF IInv, ListsOf, Listed
<1>17. \A l \in Loc : LiveOne(l)'
  BY <1>1, <1>15 DEF IInv, LiveOne, Listed
<1>18. ASSUME NEW g \in known' PROVE KeptOf(g)'
  <2>1. KeptOf(g)
    BY <1>1, <1>18 DEF IInv
  <2>2. \A u \in Thread : run'[u].foot = run[u].foot
    BY <1>8
  <2> QED
    BY <1>1, <2>1, <2>2 DEF KeptOf
<1>19. GroupsAgree'
  <2>1. BeingFlushed' = BeingFlushed
    <3>1. \A u \in Thread : Flushing(u)' = Flushing(u) /\ run'[u].group = run[u].group
      BY <1>8, <1>9 DEF Flushing, At
    <3> QED
      BY <3>1 DEF BeingFlushed
  <2>2. run[t].group \in BeingFlushed
    BY <1>9 DEF BeingFlushed
  <2>6. mem' = mem /\ members' = members /\ \A g \in Group : IsInjective(members[g])
    BY <1>1 DEF IInv, GroupsAgree
  <2> SUFFICES ASSUME NEW g \in Group \ BeingFlushed, NEW l \in Loc
               PROVE  /\ l \in ToSet(members[g]) => grp'[l] = g /\ mem[l] = "live"
                      /\ grp'[l] = g => \/ l \in ToSet(members[g])
                                        \/ \E u \in Thread : At(u, "clear")' /\ run'[u].target = l
    BY <2>1, <2>6 DEF GroupsAgree
  <2>3. /\ l \in ToSet(members[g]) => grp[l] = g /\ mem[l] = "live"
        /\ grp[l] = g => \/ l \in ToSet(members[g])
                         \/ \E u \in Thread : At(u, "clear") /\ run[u].target = l
    BY DEF IInv, GroupsAgree
  <2>4. CASE l = x
    BY <1>6, <1>7, <2>2, <2>3, <2>4
  <2>5. CASE l # x
    BY <1>7, <1>13, <2>3, <2>5
  <2> QED
    BY <2>4, <2>5
<1> QED
  BY <1>10, <1>11, <1>12, <1>14, <1>16, <1>17, <1>18, <1>19 DEF IInv

\* hdsFlush is done with the group: its locators are freed and the others are
\* in the groups they were in.
LEMMA FlushEndInv ==
    ASSUME IInv, NEW t \in Thread, FlushEnd(t)
    PROVE  IInv'
<1> DEFINE g0 == run[t].group
<1>1. /\ At(t, "next") /\ run[t].queue = <<>>
      /\ members' = [members EXCEPT ![g0] = <<>>]
      /\ mutex' = NoThread
      /\ run' = [run EXCEPT ![t] = Idle]
      /\ UNCHANGED <<mem, file, grp, prim, sec, known>>
  BY DEF FlushEnd, locVars
<1>2. ClosingTypeOK
  BY DEF IInv
<1>3. ThreadInv(t) /\ FlushOf(t)
  BY DEF IInv
<1>4. /\ run[t].pc = "next" /\ g0 # NoGroup /\ g0 \in Group /\ run[t].closing = NoFile
      /\ ToSet(run[t].queue) = {} /\ Flushing(t)
  <2>1. run[t].pc = "next"
    BY <1>1 DEF At
  <2>2. ToSet(run[t].queue) = {}
    BY <1>1 DEF ToSet
  <2>3. g0 # NoGroup /\ g0 \in Group
    BY <1>2, <1>3, <2>1, RunTyped DEF ThreadInv, PlaceOf, At
  <2> QED
    BY <1>3, <2>1, <2>2, <2>3 DEF ThreadInv, PlaceOf, Flushing, At
<1>5. run'[t] = Idle /\ \A u \in Thread : u # t => run'[u] = run[u]
  BY <1>1, <1>2 DEF ClosingTypeOK
<1>6. /\ ~Targeting(t) /\ ~Unlisting(t) /\ ~At(t, "clear") /\ ~At(t, "unregister")
  BY <1>4 DEF Targeting, Unlisting, At
<1>7. members'[g0] = <<>> /\ \A g \in Group : g # g0 => members'[g] = members[g]
  BY <1>1, <1>2, <1>4 DEF ClosingTypeOK
<1>8. ToSet(<<>>) = {} /\ IsInjective(<<>>)
  BY DEF ToSet, IsInjective
<1>9. \A g \in Group : ToSet(members'[g]) \subseteq ToSet(members[g])
  BY <1>7, <1>8
<1>10. ClosingTypeOK'
  <2>1. Idle \in Runs
    BY <1>5, IdleOk
  <2>2. run' \in [Thread -> Runs]
    BY <1>1, <1>2, <2>1 DEF ClosingTypeOK
  <2>3. members' \in [Group -> Seq(Loc)]
    <3>1. <<>> \in Seq(Loc)
      OBVIOUS
    <3> QED
      BY <1>1, <1>2, <3>1 DEF ClosingTypeOK
  <2> QED
    BY <1>1, <1>2, <2>2, <2>3 DEF ClosingTypeOK
<1>11. \A u \in Thread : u # t => ~Flushing(u)
  BY <1>3, <1>4 DEF IInv, FlushOf
<1>12. Apart' /\ \A u \in Thread : u # t => ThreadInv(u)' /\ FlushOf(u)'
  <2>1. run'[t].foot = NoFoot
    BY <1>5, IdleOk
  <2>2. \A l \in Loc : l \notin run[t].foot.writes =>
               /\ mem'[l] = mem[l] /\ file'[l] = file[l] /\ grp'[l] = grp[l]
               /\ \A g \in Group : l \in ToSet(members'[g]) => l \in ToSet(members[g])
    BY <1>1, <1>9
  <2> QED
    BY <1>1, <1>5, <1>6, <1>11, <2>1, <2>2, OthersOk, OwnFoot
<1>13. ThreadInv(t)' /\ FlushOf(t)' /\ ~Flushing(t)'
  BY <1>5, IdleOk
<1>14. \A u \in Thread : \A l : Unlisted(u, l)' = Unlisted(u, l)
  <2> SUFFICES ASSUME NEW u \in Thread, NEW l PROVE Unlisted(u, l)' = Unlisted(u, l)
    OBVIOUS
  <2>1. CASE u = t
    BY <1>5, <1>6, <2>1, IdleOk DEF Unlisted
  <2>2. CASE u # t
    BY <1>5, <2>2 DEF Unlisted, Unlisting, Targeting
  <2> QED
    BY <2>1, <2>2
<1>15. ASSUME NEW f \in File PROVE ListsOf(f)'
  <2>1. ListsOf(f) /\ prim' = prim /\ sec' = sec /\ mem' = mem /\ file' = file
    BY <1>1 DEF IInv
  <2> QED
    BY <1>14, <2>1 DEF ListsOf, Listed
<1>16. \A l \in Loc : LiveOne(l)'
  BY <1>1, <1>14 DEF IInv, LiveOne, Listed
<1>17. ASSUME NEW f \in known' PROVE KeptOf(f)'
  <2>1. run[t].foot.closes \cap known = {}
    BY <1>4, <1>6, AllClosed
  <2>2. f \in known /\ KeptOf(f) /\ f \notin run[t].foot.closes
    BY <1>1, <1>17, <2>1 DEF IInv
  <2>3. run'[t].foot.writes = {}
    BY <1>5, IdleOk
  <2>4. CASE \E u \in Thread : f \in run[u].foot.closes
    BY <1>5, <2>2, <2>4 DEF KeptOf
  <2>5. CASE \E p \in ToSet(prim[f]) : \A u \in Thread : p \notin run[u].foot.writes
    BY <1>1, <1>5, <2>3, <2>5 DEF KeptOf
  <2> QED
    BY <2>2, <2>4, <2>5 DEF KeptOf
<1>18. GroupsAgree'
  <2>1. BeingFlushed \subseteq {g0}
    BY <1>11 DEF BeingFlushed
  <2>2. \A u \in Thread : \A l : At(u, "clear") /\ run[u].target = l => At(u, "clear")' /\ run'[u].target = l
    BY <1>5, <1>6 DEF At
  <2>3. \A g \in Group : IsInjective(members'[g])
    BY <1>7, <1>8 DEF IInv, GroupsAgree
  <2> SUFFICES ASSUME NEW g \in Group, NEW l \in Loc
               PROVE  /\ l \in ToSet(members'[g]) => grp[l] = g /\ mem[l] = "live"
                      /\ grp[l] = g => \/ l \in ToSet(members'[g])
                                       \/ \E u \in Thread : At(u, "clear")' /\ run'[u].target = l
    BY <1>1, <2>3 DEF GroupsAgree
  <2>4. CASE g = g0
    BY <1>3, <1>4, <1>7, <1>8, <2>2, <2>4 DEF FlushOf
  <2>5. CASE g # g0
    BY <1>7, <2>1, <2>2, <2>5 DEF IInv, GroupsAgree
  <2> QED
    BY <2>4, <2>5
<1> QED
  BY <1>10, <1>12, <1>13, <1>15, <1>16, <1>17, <1>18 DEF IInv

\* The footprint of a call that annuls the locators of S: the files that it
\* closes have no primary locators but those, and every other file keeps one.
LEMMA AnnulFootOk ==
    ASSUME IInv, NEW t \in Thread, At(t, "idle"), NEW S \in SUBSET Loc,
           NoConflict(t, AnnulFoot(t, S)),
           NEW F, F = AnnulFoot(t, S)
    PROVE  /\ F \in Footprint
           /\ F.writes \subseteq F.uses /\ F.closes \subseteq F.files /\ S \subseteq F.writes
           /\ \A l \in F.writes : file[l] \in F.files \cup {NoFile}
           /\ \A u \in Thread : u # t => ~Conflict(F, run[u].foot)
           /\ \A f \in F.closes : /\ prim[f] # <<>> /\ ToSet(prim[f]) \subseteq S
                                  /\ ToSet(sec[f]) \subseteq F.writes
           /\ \A f \in known : \/ f \in F.closes
                               \/ \E u \in Thread : u # t /\ f \in run[u].foot.closes
                               \/ \E p \in ToSet(prim[f]) : /\ p \notin F.writes
                                     /\ \A u \in Thread : u # t => p \notin run[u].foot.writes
<1> DEFINE others == UNION {run[u].foot.writes : u \in Thread \ {t}}
           closes == ClosedWith(t, S)
<1>1. ClosingTypeOK
  BY DEF IInv
<1>2. /\ F.files = FilesOf(S) /\ F.closes = closes
      /\ F.writes = S \cup UNION {ToSet(sec[f]) : f \in closes} /\ F.uses = F.writes
      /\ F = [writes |-> F.writes, uses |-> F.uses, files |-> F.files, closes |-> F.closes]
  BY DEF AnnulFoot
<1>3. FilesOf(S) \subseteq File /\ \A l \in S : file[l] \in FilesOf(S) \cup {NoFile}
  BY <1>1 DEF FilesOf, ClosingTypeOK
<1>4. \A f : f \in closes <=> /\ f \in FilesOf(S) /\ prim[f] # <<>>
                              /\ ToSet(prim[f]) \subseteq S \cup others
  BY DEF ClosedWith
<1> HIDE DEF closes
<1>5. \A u \in Thread : u # t => ~Conflict(F, run[u].foot)
  BY DEF NoConflict
<1>6. \A f \in File : ListsOf(f) /\ prim[f] \in Seq(Loc) /\ sec[f] \in Seq(Loc)
  BY <1>1 DEF IInv, ClosingTypeOK
<1>7. \A f \in File : ToSet(sec[f]) \subseteq Loc
  BY <1>6 DEF ToSet
<1>8. F \in Footprint
  <2>1. F.writes \subseteq Loc
    BY <1>2, <1>3, <1>4, <1>7
  <2>2. F.files \in SUBSET File /\ F.closes \in SUBSET File
    BY <1>2, <1>3, <1>4
  <2> QED
    BY <1>2, <2>1, <2>2 DEF Footprint
<1>9. \A l \in F.writes : file[l] \in F.files \cup {NoFile}
  <2> SUFFICES ASSUME NEW f \in closes, NEW l \in ToSet(sec[f]) PROVE file[l] \in F.files
    BY <1>2, <1>3
  <2>1. f \in FilesOf(S) /\ f \in File
    BY <1>3, <1>4
  <2>2. file[l] = f
    BY <1>6, <2>1 DEF ListsOf, Listed
  <2> QED
    BY <1>2, <2>1, <2>2
<1>10. ASSUME NEW f \in closes
       PROVE  /\ prim[f] # <<>> /\ ToSet(prim[f]) \subseteq S /\ ToSet(sec[f]) \subseteq F.writes
  <2>1. f \in File /\ prim[f] # <<>> /\ f \in F.closes
    BY <1>2, <1>3, <1>4
  <2>2. ToSet(sec[f]) \subseteq F.writes
    BY <1>2
  <2>3. ASSUME NEW p \in ToSet(prim[f]), p \notin S PROVE FALSE
    <3>1. PICK u \in Thread \ {t} : p \in run[u].foot.writes
      BY <1>4, <2>3
    <3>2. file[p] = f
      BY <1>6, <2>1 DEF ListsOf, Listed
    <3>3. f \in run[u].foot.files
      BY <2>1, <3>1, <3>2 DEF IInv, ThreadInv, FootOf
    <3> QED
      BY <1>5, <2>1, <3>1, <3>3 DEF Conflict
  <2> QED
    BY <2>1, <2>2, <2>3
<1>11. ASSUME NEW f \in known
       PROVE  \/ f \in F.closes
              \/ \E u \in Thread : u # t /\ f \in run[u].foot.closes
              \/ \E p \in ToSet(prim[f]) : /\ p \notin F.writes
                    /\ \A u \in Thread : u # t => p \notin run[u].foot.writes
  <2> SUFFICES ASSUME f \notin F.closes, \A u \in Thread : u # t => f \notin run[u].foot.closes
               PROVE  \E p \in ToSet(prim[f]) : /\ p \notin F.writes
                         /\ \A u \in Thread : u # t => p \notin run[u].foot.writes
    OBVIOUS
  <2>1. f \in File /\ f # NoFile
    BY <1>1 DEF ClosingTypeOK
  <2>2. run[t].foot.closes = {}
    BY DEF IInv, ThreadInv, PlaceOf, Idle, NoFoot
  <2>3. PICK p0 \in ToSet(prim[f]) : \A u \in Thread : p0 \notin run[u].foot.writes
    BY <2>2 DEF IInv, KeptOf
  <2>4. \A p \in ToSet(prim[f]) : file[p] = f
    BY <1>6, <2>1 DEF ListsOf, Listed
  <2>5. ASSUME NEW p \in ToSet(prim[f]), NEW g \in closes PROVE p \notin ToSet(sec[g])
    <3>1. g \in File
      BY <1>3, <1>4
    <3>2. CASE g = f
      BY <1>6, <2>1, <3>2 DEF ListsOf
    <3>3. CASE g # f
      <4>1. \A l \in ToSet(sec[g]) : file[l] = g
        BY <1>6, <3>1 DEF ListsOf, Listed
      <4> QED
        BY <2>4, <3>3, <4>1
    <3> QED
      BY <3>2, <3>3
  <2>6. CASE f \in FilesOf(S)
    <3>1. prim[f] # <<>>
      BY DEF ToSet
    <3>2. PICK p \in ToSet(prim[f]) : p \notin S \cup others
      BY <1>2, <1>4, <2>6, <3>1
    <3>3. p \notin F.writes
      BY <1>2, <2>5, <3>2
    <3>4. \A u \in Thread : u # t => p \notin run[u].foot.writes
      BY <3>2
    <3> QED
      BY <3>3, <3>4
  <2>7. CASE f \notin FilesOf(S)
    <3>1. p0 \notin S
      BY <1>3, <2>1, <2>4, <2>7
    <3>2. p0 \notin F.writes
      BY <1>2, <2>5, <3>1
    <3> QED
      BY <2>3, <3>2
  <2> QED
    BY <2>6, <2>7
<1>12. F.writes \subseteq F.uses /\ F.closes \subseteq F.files /\ S \subseteq F.writes
  BY <1>2, <1>4
<1>13. \A f \in F.closes : /\ prim[f] # <<>> /\ ToSet(prim[f]) \subseteq S
                            /\ ToSet(sec[f]) \subseteq F.writes
  BY <1>2, <1>10
<1> HIDE DEF others
<1> QED
  BY <1>5, <1>8, <1>9, <1>11, <1>12, <1>13

\* A call that annuls locators begins.
LEMMA BeginOk ==
    ASSUME IInv, NEW t \in Thread, At(t, "idle"), NEW S \in SUBSET Loc,
           NoConflict(t, AnnulFoot(t, S)),
           NEW F, F = AnnulFoot(t, S),
           run'[t].foot = F, \A u \in Thread : u # t => run'[u] = run[u],
           ~Unlisting(t)', ~Targeting(t)',
           UNCHANGED <<mem, file, grp, prim, sec, known, members>>,
           \A u \in Thread : u # t /\ Flushing(u) => mutex' = mutex
    PROVE  /\ Apart'
           /\ \A u \in Thread : u # t => ThreadInv(u)' /\ FlushOf(u)'
           /\ \A f \in File : ListsOf(f)'
           /\ \A l \in Loc : LiveOne(l)'
           /\ \A f \in known' : KeptOf(f)'
           /\ \A u \in Thread : At(u, "clear") => At(u, "clear")' /\ run'[u].target = run[u].target
<1>1. /\ \A u \in Thread : u # t => ~Conflict(F, run[u].foot)
      /\ \A f \in known : \/ f \in F.closes
                          \/ \E u \in Thread : u # t /\ f \in run[u].foot.closes
                          \/ \E p \in ToSet(prim[f]) : /\ p \notin F.writes
                                /\ \A u \in Thread : u # t => p \notin run[u].foot.writes
  BY AnnulFootOk
<1>2. /\ mem' = mem /\ file' = file /\ grp' = grp /\ prim' = prim /\ sec' = sec
      /\ known' = known /\ members' = members
  OBVIOUS
<1>3. /\ ~Targeting(t) /\ ~Unlisting(t) /\ ~At(t, "clear")
  BY DEF Targeting, Unlisting, At
<1>4. Apart' /\ \A u \in Thread : u # t => ThreadInv(u)' /\ FlushOf(u)'
  BY <1>1, <1>2, <1>3, OthersOk
<1>5. \A u \in Thread : \A l : Unlisted(u, l)' = Unlisted(u, l)
  <2> SUFFICES ASSUME NEW u \in Thread, NEW l PROVE Unlisted(u, l)' = Unlisted(u, l)
    OBVIOUS
  <2>1. CASE u = t
    BY <1>3, <2>1 DEF Unlisted
  <2>2. CASE u # t
    BY <2>2 DEF Unlisted, Unlisting, Targeting
  <2> QED
    BY <2>1, <2>2
<1>6. \A f \in File : ListsOf(f)'
  BY <1>2, <1>5 DEF IInv, ListsOf, Listed
<1>7. \A l \in Loc : LiveOne(l)'
  BY <1>2, <1>5 DEF IInv, LiveOne, Listed
<1>8. \A f \in known' : KeptOf(f)'
  <2> SUFFICES ASSUME NEW f \in known
               PROVE  \/ \E u \in Thread : f \in run'[u].foot.closes
                      \/ \E p \in ToSet(prim[f]) : \A u \in Thread : p \notin run'[u].foot.writes
    BY <1>2 DEF KeptOf
  <2>1. CASE f \in F.closes
    BY <2>1
  <2>2. CASE \E u \in Thread : u # t /\ f \in run[u].foot.closes
    BY <2>2
  <2>3. CASE \E p \in ToSet(prim[f]) : /\ p \notin F.writes
                                /\ \A u \in Thread : u # t => p \notin run[u].foot.writes
    BY <2>3
  <2> QED
    BY <1>1, <2>1, <2>2, <2>3
<1>9. \A u \in Thread : At(u, "clear") => At(u, "clear")' /\ run'[u].target = run[u].target
  BY <1>3 DEF At
<1> QED
  BY <1>4, <1>6, <1>7, <1>8, <1>9

\* datAnnul begins.
LEMMA DatAnnulInv ==
    ASSUME IInv, NEW t \in Thread, NEW x \in Loc, DatAnnul(t, x)
    PROVE  IInv'
<1>1. /\ At(t, "idle") /\ mem[x] \in {"live", "cleared"}
      /\ NoConflict(t, AnnulFoot(t, {x}))
      /\ run' = [run EXCEPT ![t] = [Idle EXCEPT !.pc = "unregister", !.loc = x,
                                                !.foot = AnnulFoot(t, {x})]]
      /\ UNCHANGED <<mem, file, grp, prim, sec, known, members, mutex>>
  BY DEF DatAnnul, locVars
<1>2. ClosingTypeOK
  BY DEF IInv
<1>3. PICK S \in SUBSET Loc : S = {x}
  OBVIOUS
<1>4. PICK F : F = AnnulFoot(t, S)
  OBVIOUS
<1>5. /\ F \in Footprint
      /\ F.writes \subseteq F.uses /\ F.closes \subseteq F.files /\ x \in F.writes
      /\ \A l \in F.writes : file[l] \in F.files \cup {NoFile}
      /\ \A f \in F.closes : /\ prim[f] # <<>> /\ ToSet(prim[f]) \subseteq {x}
                             /\ ToSet(sec[f]) \subseteq F.writes
  <2>1. At(t, "idle") /\ NoConflict(t, AnnulFoot(t, S))
    BY <1>1, <1>3
  <2>2. /\ F \in Footprint
        /\ F.writes \subseteq F.uses /\ F.closes \subseteq F.files /\ S \subseteq F.writes
        /\ \A l \in F.writes : file[l] \in F.files \cup {NoFile}
        /\ \A f \in F.closes : /\ prim[f] # <<>> /\ ToSet(prim[f]) \subseteq S
                               /\ ToSet(sec[f]) \subseteq F.writes
    BY <1>4, <2>1, AnnulFootOk
  <2> QED
    BY <1>3, <2>2
<1>6. run'[t] = [Idle EXCEPT !.pc = "unregister", !.loc = x, !.foot = F]
  BY <1>1, <1>2, <1>3, <1>4 DEF ClosingTypeOK
<1>7. /\ run'[t].pc = "unregister" /\ run'[t].loc = x /\ run'[t].queue = <<>>
      /\ run'[t].group = NoGroup /\ run'[t].target = NoLoc
      /\ run'[t].closing = NoFile /\ run'[t].foot = F
      /\ \A u \in Thread : u # t => run'[u] = run[u]
  BY <1>1, <1>2, <1>6 DEF ClosingTypeOK, Idle
<1>8. /\ ~Targeting(t)' /\ ~Unlisting(t)' /\ Annulling(t)' /\ ~Flushing(t)'
      /\ ~At(t, "clear")' /\ At(t, "unregister")'
  BY <1>7 DEF Targeting, Unlisting, Annulling, Flushing, At
<1>9. ToSet(<<>>) = {} /\ IsInjective(<<>>)
  BY DEF ToSet, IsInjective
<1>10. x # NoLoc /\ Held(t)' = {x} /\ Coming(t)' = {x}
  BY <1>7, <1>8, <1>9 DEF Held, Coming
<1>11. ClosingTypeOK'
  <2>1. <<>> \in Seq(Loc)
    OBVIOUS
  <2>2. [Idle EXCEPT !.pc = "unregister", !.loc = x, !.foot = F] \in Runs
    BY <1>5, <2>1 DEF Idle, Runs, PcKind
  <2>3. run' \in [Thread -> Runs]
    BY <1>1, <1>2, <1>3, <1>4, <2>2 DEF ClosingTypeOK
  <2> QED
    BY <1>1, <1>2, <2>3 DEF ClosingTypeOK
<1>12. /\ Apart'
       /\ \A u \in Thread : u # t => ThreadInv(u)' /\ FlushOf(u)'
       /\ \A f \in File : ListsOf(f)'
       /\ \A l \in Loc : LiveOne(l)'
       /\ \A f \in known' : KeptOf(f)'
       /\ \A u \in Thread : At(u, "clear") => At(u, "clear")' /\ run'[u].target = run[u].target
  BY <1>1, <1>3, <1>4, <1>7, <1>8, BeginOk
<1>13. ThreadInv(t)'
  <2>1. PlaceOf(t)'
    BY <1>7, <1>8, <1>10 DEF PlaceOf, At
  <2>2. FootOf(t)'
    BY <1>1, <1>5, <1>7, <1>10 DEF FootOf
  <2>3. PointersOf(t)'
    BY <1>1, <1>7, <1>8, <1>9, <1>10 DEF PointersOf
  <2>4. CascadeOf(t)'
    BY <1>7 DEF CascadeOf
  <2>5. ToCloseOf(t)'
    BY <1>1, <1>5, <1>7, <1>10 DEF ToCloseOf
  <2> QED
    BY <2>1, <2>2, <2>3, <2>4, <2>5 DEF ThreadInv
<1>14. FlushOf(t)'
  BY <1>8 DEF FlushOf
<1>15. GroupsAgree'
  <2>1. \A u \in Thread : /\ Flushing(u)' = Flushing(u)
                          /\ Flushing(u) => run'[u].group = run[u].group
    <3>1. ~Flushing(t)
      BY <1>1 DEF IInv, ThreadInv, PlaceOf, Flushing, Idle
    <3> QED
      BY <1>7, <1>8, <3>1 DEF Flushing, At
  <2> QED
    BY <1>1, <1>12, <2>1, SameGroups
<1> QED
  BY <1>11, <1>12, <1>13, <1>14, <1>15 DEF IInv

\* hdsFlush begins.
LEMMA HdsFlushInv ==
    ASSUME IInv, NEW t \in Thread, NEW g \in Group, HdsFlush(t, g)
    PROVE  IInv'
<1>1. /\ At(t, "idle") /\ mutex = NoThread
      /\ NoConflict(t, AnnulFoot(t, ToSet(members[g])))
      /\ mutex' = t
      /\ run' = [run EXCEPT ![t] = [Idle EXCEPT !.pc = "next", !.group = g, !.queue = members[g],
                                                !.foot = AnnulFoot(t, ToSet(members[g]))]]
      /\ UNCHANGED <<mem, file, grp, prim, sec, known, members>>
  BY DEF HdsFlush, locVars
<1>2. ClosingTypeOK
  BY DEF IInv
<1>3. PICK S : S = ToSet(members[g])
  OBVIOUS
<1>4. members[g] \in Seq(Loc) /\ IsInjective(members[g]) /\ S \in SUBSET Loc
  BY <1>2, <1>3 DEF IInv, ClosingTypeOK, GroupsAgree, ToSet
<1>5. PICK F : F = AnnulFoot(t, S)
  OBVIOUS
<1>6. /\ F \in Footprint
      /\ F.writes \subseteq F.uses /\ F.closes \subseteq F.files /\ S \subseteq F.writes
      /\ \A l \in F.writes : file[l] \in F.files \cup {NoFile}
      /\ \A f \in F.closes : /\ prim[f] # <<>> /\ ToSet(prim[f]) \subseteq S
                             /\ ToSet(sec[f]) \subseteq F.writes
  <2>1. At(t, "idle") /\ NoConflict(t, AnnulFoot(t, S))
    BY <1>1, <1>3
  <2> QED
    BY <1>4, <1>5, <2>1, AnnulFootOk
<1>7. run'[t] = [Idle EXCEPT !.pc = "next", !.group = g, !.queue = members[g], !.foot = F]
  BY <1>1, <1>2, <1>3, <1>5 DEF ClosingTypeOK
<1>8. /\ run'[t].pc = "next" /\ run'[t].loc = NoLoc /\ run'[t].queue = members[g]
      /\ run'[t].group = g /\ run'[t].target = NoLoc
      /\ run'[t].closing = NoFile /\ run'[t].foot = F
      /\ \A u \in Thread : u # t => run'[u] = run[u]
  BY <1>1, <1>2, <1>7 DEF ClosingTypeOK, Idle
<1>9. g # NoGroup
  OBVIOUS
<1>10. /\ ~Targeting(t)' /\ ~Unlisting(t)' /\ ~Annulling(t)' /\ Flushing(t)'
       /\ ~At(t, "clear")' /\ ~At(t, "unregister")'
  BY <1>8, <1>9 DEF Targeting, Unlisting, Annulling, Flushing, At
<1>11. Held(t)' = S /\ Coming(t)' = S
  BY <1>3, <1>8, <1>10 DEF Held, Coming
<1>12. ClosingTypeOK'
  <2>1. [Idle EXCEPT !.pc = "next", !.group = g, !.queue = members[g], !.foot = F] \in Runs
    BY <1>4, <1>6 DEF Idle, Runs, PcKind
  <2>2. run' \in [Thread -> Runs]
    BY <1>1, <1>2, <1>3, <1>5, <2>1 DEF ClosingTypeOK
  <2> QED
    BY <1>1, <1>2, <2>2 DEF ClosingTypeOK
<1>13. \A u \in Thread : ~Flushing(u)
  BY <1>1 DEF IInv, FlushOf
<1>14. BeingFlushed = {} /\ BeingFlushed' = {g}
  <2>1. \A u \in Thread : u # t => ~Flushing(u)'
    BY <1>8, <1>13 DEF Flushing, At
  <2> QED
    BY <1>8, <1>10, <1>13, <2>1 DEF BeingFlushed
<1>15. \A l \in S : grp[l] = g /\ mem[l] = "live"
  BY <1>3, <1>4, <1>14 DEF IInv, GroupsAgree
<1>16. /\ Apart'
       /\ \A u \in Thread : u # t => ThreadInv(u)' /\ FlushOf(u)'
       /\ \A f \in File : ListsOf(f)'
       /\ \A l \in Loc : LiveOne(l)'
       /\ \A f \in known' : KeptOf(f)'
       /\ \A u \in Thread : At(u, "clear") => At(u, "clear")' /\ run'[u].target = run[u].target
  BY <1>1, <1>3, <1>4, <1>5, <1>8, <1>10, <1>13, BeginOk
<1>17. ThreadInv(t)'
  <2>1. PlaceOf(t)'
    BY <1>8, <1>9, <1>10 DEF PlaceOf, At
  <2>2. FootOf(t)'
    BY <1>1, <1>6, <1>8, <1>11 DEF FootOf
  <2>3. PointersOf(t)'
    <3>1. NoLoc \notin S
      BY <1>4
    <3> QED
      BY <1>1, <1>3, <1>4, <1>8, <1>10, <1>11, <1>15, <3>1 DEF PointersOf
  <2>4. CascadeOf(t)'
    BY <1>8 DEF CascadeOf
  <2>5. ToCloseOf(t)'
    BY <1>1, <1>6, <1>8, <1>11 DEF ToCloseOf
  <2> QED
    BY <2>1, <2>2, <2>3, <2>4, <2>5 DEF ThreadInv
<1>18. \A l \in Loc : grp[l] = g => \/ l \in S
                                    \/ \E u \in Thread : At(u, "clear")' /\ run'[u].target = l
  BY <1>3, <1>14, <1>16 DEF IInv, GroupsAgree
<1>19. FlushOf(t)'
  BY <1>1, <1>3, <1>6, <1>8, <1>10, <1>18 DEF FlushOf
<1>20. GroupsAgree'
  <2>1. mem' = mem /\ grp' = grp /\ members' = members
    BY <1>1
  <2> QED
    BY <1>14, <1>16, <2>1 DEF IInv, GroupsAgree
<1> QED
  BY <1>12, <1>16, <1>17, <1>19, <1>20 DEF IInv

\* A block of memory that was never used is in no list, and no thread has a
\* pointer to it.
LEMMA FreshOk ==
    ASSUME IInv, NEW l \in Loc, mem[l] = "unused"
    PROVE  /\ \A f \in File : l \notin Listed(f)
           /\ \A u \in Thread : ~Unlisted(u, l)
           /\ \A g \in Group \ BeingFlushed : l \notin ToSet(members[g])
<1>1. \A f \in File : l \notin Listed(f)
  BY DEF IInv, ListsOf
<1>2. ASSUME NEW u \in Thread PROVE ~Unlisted(u, l)
  <2>1. l \notin Held(u)
    BY DEF IInv, ThreadInv, PointersOf
  <2>2. l # NoLoc
    OBVIOUS
  <2> QED
    BY <2>1, <2>2 DEF Unlisted, Held
<1>3. \A g \in Group \ BeingFlushed : l \notin ToSet(members[g])
  BY DEF IInv, GroupsAgree
<1> QED
  BY <1>1, <1>2, <1>3

\* A new locator l of the file f, put at the head of one of the lists of f.
LEMMA NewLocOk ==
    ASSUME IInv, NEW t \in Thread, At(t, "idle"), NEW l \in Loc, mem[l] = "unused", NEW f \in File,
           NEW F, F.writes = {l}, l \in F.uses, F.files = {f}, F.closes = {},
           \A u \in Thread : u # t => run'[u] = run[u] /\ ~Conflict(F, run[u].foot),
           mem' = [mem EXCEPT ![l] = "live"], file' = [file EXCEPT ![l] = f],
           grp' = grp, members' = members, mutex' = mutex, known' = known \cup {f},
           \/ /\ prim' = [prim EXCEPT ![f] = <<l>> \o @] /\ sec' = sec
              /\ run'[t].foot = NoFoot
           \/ /\ prim' = prim /\ sec' = [sec EXCEPT ![f] = <<l>> \o @]
              /\ f \in known /\ run'[t].foot \in {F, NoFoot},
           run'[t].pc \in {"idle", "link"}, run'[t].group # NoGroup => run'[t].pc = "link"
    PROVE  /\ prim' \in [File -> Seq(Loc)] /\ sec' \in [File -> Seq(Loc)]
           /\ Apart'
           /\ \A u \in Thread : u # t => ThreadInv(u)' /\ FlushOf(u)'
           /\ \A g \in File : ListsOf(g)'
           /\ \A g \in known' : KeptOf(g)'
           /\ \A m \in Loc : LiveOne(m)'
           /\ GroupsAgree'
<1>1. ClosingTypeOK
  BY DEF IInv
<1>2. /\ mem'[l] = "live" /\ file'[l] = f
      /\ \A m : m # l => mem'[m] = mem[m] /\ file'[m] = file[m]
  <2>1. mem'[l] = "live" /\ file'[l] = f
    BY <1>1 DEF ClosingTypeOK
  <2> QED
    BY <1>1, <2>1 DEF ClosingTypeOK
<1>3. /\ \A g \in File : l \notin Listed(g)
      /\ \A u \in Thread : ~Unlisted(u, l)
      /\ \A g \in Group \ BeingFlushed : l \notin ToSet(members[g])
  BY FreshOk
<1>4. ASSUME NEW g \in File
      PROVE  /\ prim[g] \in Seq(Loc) /\ sec[g] \in Seq(Loc) /\ ListsOf(g)
             /\ g # f => prim'[g] = prim[g] /\ sec'[g] = sec[g]
  BY <1>1 DEF IInv, ClosingTypeOK
<1>5. /\ prim' \in [File -> Seq(Loc)] /\ sec' \in [File -> Seq(Loc)]
      /\ IsInjective(prim'[f]) /\ IsInjective(sec'[f])
      /\ ToSet(prim[f]) \subseteq ToSet(prim'[f])
      /\ ToSet(prim'[f]) \cap ToSet(sec'[f]) = {}
      /\ ToSet(prim'[f]) \cup ToSet(sec'[f]) = Listed(f) \cup {l}
  <2>1. /\ l \notin ToSet(prim[f]) /\ l \notin ToSet(sec[f])
        /\ IsInjective(prim[f]) /\ IsInjective(sec[f])
        /\ ToSet(prim[f]) \cap ToSet(sec[f]) = {}
        /\ prim[f] \in Seq(Loc) /\ sec[f] \in Seq(Loc)
    BY <1>3, <1>4 DEF Listed, ListsOf
  <2>2. CASE prim' = [prim EXCEPT ![f] = <<l>> \o @] /\ sec' = sec
    <3>1. PICK s : s = prim[f]
      OBVIOUS
    <3>2. /\ <<l>> \o s \in Seq(Loc) /\ ToSet(<<l>> \o s) = {l} \cup ToSet(s)
          /\ IsInjective(<<l>> \o s)
      BY <2>1, <3>1, HeadOk
    <3>3. prim'[f] = <<l>> \o s /\ prim' \in [File -> Seq(Loc)] /\ sec' \in [File -> Seq(Loc)]
      BY <1>1, <2>2, <3>1, <3>2 DEF ClosingTypeOK
    <3> QED
      BY <2>1, <2>2, <3>1, <3>2, <3>3 DEF Listed
  <2>3. CASE prim' = prim /\ sec' = [sec EXCEPT ![f] = <<l>> \o @]
    <3>1. PICK s : s = sec[f]
      OBVIOUS
    <3>2. /\ <<l>> \o s \in Seq(Loc) /\ ToSet(<<l>> \o s) = {l} \cup ToSet(s)
          /\ IsInjective(<<l>> \o s)
      BY <2>1, <3>1, HeadOk
    <3>3. sec'[f] = <<l>> \o s /\ prim' \in [File -> Seq(Loc)] /\ sec' \in [File -> Seq(Loc)]
      BY <1>1, <2>3, <3>1, <3>2 DEF ClosingTypeOK
    <3> QED
      BY <2>1, <2>3, <3>1, <3>2, <3>3 DEF Listed
  <2> QED
    BY <2>2, <2>3
<1>6. /\ Listed(f)' = Listed(f) \cup {l}
      /\ \A g \in File : g # f => Listed(g)' = Listed(g)
  <2>1. Listed(f)' = Listed(f) \cup {l}
    BY <1>5 DEF Listed
  <2> QED
    BY <1>4, <2>1 DEF Listed
<1>7. /\ ~Unlisting(t) /\ ~Targeting(t) /\ ~At(t, "clear") /\ ~Flushing(t)
      /\ ~Unlisting(t)' /\ ~Targeting(t)' /\ ~Flushing(t)'
  <2>1. run[t].group = NoGroup
    BY DEF IInv, ThreadInv, PlaceOf, Idle
  <2> QED
    BY <2>1 DEF Unlisting, Targeting, Flushing, At
<1>8. Apart' /\ \A u \in Thread : u # t => ThreadInv(u)' /\ FlushOf(u)'
  <2>1. \A m \in Loc : m \notin F.writes =>
               /\ mem'[m] = mem[m] /\ file'[m] = file[m] /\ grp'[m] = grp[m]
               /\ \A g \in Group : m \in ToSet(members'[g]) => m \in ToSet(members[g])
    BY <1>2
  <2>2. \A g \in File : g \notin F.files =>
               prim'[g] = prim[g] /\ sec'[g] = sec[g] /\ (g \in known' <=> g \in known)
    BY <1>4
  <2>3. run'[t].foot = F \/ run'[t].foot = NoFoot
    OBVIOUS
  <2> QED
    BY <1>7, <2>1, <2>2, <2>3, OthersOk
<1>9. \A u \in Thread : \A m : Unlisted(u, m)' = Unlisted(u, m)
  <2> SUFFICES ASSUME NEW u \in Thread, NEW m PROVE Unlisted(u, m)' = Unlisted(u, m)
    OBVIOUS
  <2>1. CASE u = t
    BY <1>7, <2>1 DEF Unlisted
  <2>2. CASE u # t
    BY <2>2 DEF Unlisted, Unlisting, Targeting
  <2> QED
    BY <2>1, <2>2
<1>10. ASSUME NEW g \in File PROVE ListsOf(g)'
  <2>1. \A m \in Listed(g) : m # l /\ mem[m] = "live" /\ file[m] = g /\ \A u \in Thread : ~Unlisted(u, m)
    BY <1>3, <1>4 DEF ListsOf
  <2>2. \A m \in Listed(g) : mem'[m] = "live" /\ file'[m] = g /\ \A u \in Thread : ~Unlisted(u, m)'
    BY <1>2, <1>9, <2>1
  <2>3. CASE g = f
    BY <1>2, <1>3, <1>5, <1>6, <1>9, <2>2, <2>3 DEF ListsOf
  <2>4. CASE g # f
    BY <1>4, <1>6, <2>2, <2>4 DEF ListsOf
  <2> QED
    BY <2>3, <2>4
<1>11. ASSUME NEW g \in known' PROVE KeptOf(g)'
  <2>0. g \in File
    BY <1>1 DEF ClosingTypeOK
  <2>1. run[t].foot.closes = {}
    BY DEF IInv, ThreadInv, PlaceOf, Idle, NoFoot
  <2>2. \A u \in Thread : run[u].foot.closes \subseteq run'[u].foot.closes
    BY <2>1
  <2>3. run'[t].foot.writes \subseteq {l}
    BY DEF NoFoot
  <2>4. CASE prim' # prim /\ g = f
    <3>1. \A u \in Thread : l \notin run'[u].foot.writes
      BY <2>4 DEF Conflict, NoFoot
    <3>2. l \in ToSet(prim'[f])
      <4>1. l \notin ToSet(sec[f]) /\ l \in ToSet(prim'[f]) \cup ToSet(sec'[f])
        BY <1>3, <1>5 DEF Listed
      <4> QED
        BY <2>4, <4>1
    <3> QED
      BY <2>4, <3>1, <3>2 DEF KeptOf
  <2>5. CASE g \in known
    <3>1. CASE \E u \in Thread : g \in run[u].foot.closes
      BY <2>2, <3>1 DEF KeptOf
    <3>2. CASE \E p \in ToSet(prim[g]) : \A u \in Thread : p \notin run[u].foot.writes
      <4>1. PICK p \in ToSet(prim[g]) : \A u \in Thread : p \notin run[u].foot.writes
        BY <3>2
      <4>2. p # l
        BY <1>3, <2>0 DEF Listed
      <4>3. \A u \in Thread : p \notin run'[u].foot.writes
        BY <2>3, <4>1, <4>2
      <4>4. p \in ToSet(prim'[g])
        BY <1>4, <1>5, <2>0
      <4> QED
        BY <4>3, <4>4 DEF KeptOf
    <3> QED
      BY <2>5, <3>1, <3>2 DEF IInv, KeptOf
  <2>6. CASE prim' = prim
    BY <2>5, <2>6, <1>1 DEF ClosingTypeOK
  <2> QED
    BY <2>4, <2>5, <2>6
<1>12. ASSUME NEW m \in Loc PROVE LiveOne(m)'
  <2> SUFFICES ASSUME mem'[m] = "live"
               PROVE  /\ file'[m] \in known'
                      /\ m \in Listed(file[m])' \/ \E u \in Thread : Unlisted(u, m)'
    BY DEF LiveOne, Listed
  <2>1. CASE m = l
    <3>1. file'[m] = f /\ m \in Listed(f)' /\ Listed(f)' = Listed(file[m])'
      BY <1>2, <1>6, <2>1
    <3>2. f \in known'
      OBVIOUS
    <3> QED
      BY <3>1, <3>2
  <2>2. CASE m # l
    <3>1. file[m] \in known /\ (m \in Listed(file[m]) \/ \E u \in Thread : Unlisted(u, m))
      BY <1>2, <2>2 DEF IInv, LiveOne
    <3>2. PICK g \in File : g = file[m] /\ g = file'[m]
      BY <1>1, <1>2, <2>2, <3>1 DEF ClosingTypeOK
    <3>3. m \in Listed(g) => m \in Listed(g)'
      BY <1>6
    <3>4. m \in Listed(g)' \/ \E u \in Thread : Unlisted(u, m)'
      BY <1>9, <3>1, <3>2, <3>3
    <3>5. Listed(g)' = Listed(file[m])'
      BY <3>2 DEF Listed
    <3> QED
      BY <3>1, <3>2, <3>4, <3>5
  <2> QED
    BY <2>1, <2>2
<1>13. GroupsAgree'
  <2>1. \A u \in Thread : Flushing(u)' = Flushing(u) /\ (Flushing(u) => run'[u].group = run[u].group)
    BY <1>7 DEF Flushing, At
  <2>2. BeingFlushed' = BeingFlushed
    BY <2>1, SameFlushed
  <2>3. \A u \in Thread : At(u, "clear") => At(u, "clear")' /\ run'[u].target = run[u].target
    BY <1>7 DEF At
  <2> SUFFICES ASSUME NEW g \in Group \ BeingFlushed, NEW m \in Loc
               PROVE  /\ m \in ToSet(members[g]) => grp[m] = g /\ mem'[m] = "live"
                      /\ grp[m] = g => \/ m \in ToSet(members[g])
                                       \/ \E u \in Thread : At(u, "clear")' /\ run'[u].target = m
    BY <2>2 DEF IInv, GroupsAgree
  <2>4. /\ m \in ToSet(members[g]) => grp[m] = g /\ mem[m] = "live"
        /\ grp[m] = g => \/ m \in ToSet(members[g])
                         \/ \E u \in Thread : At(u, "clear") /\ run[u].target = m
    BY DEF IInv, GroupsAgree
  <2> QED
    BY <1>2, <2>3, <2>4
<1> QED
  BY <1>5, <1>8, <1>10, <1>11, <1>12, <1>13

\* hdsOpen: a primary locator.
LEMMA HdsOpenInv ==
    ASSUME IInv, NEW t \in Thread, NEW l \in Loc, NEW f \in File, HdsOpen(t, l, f)
    PROVE  IInv'
<1>1. PICK F : F = [NoFoot EXCEPT !.writes = {l}, !.uses = {l}, !.files = {f}]
  OBVIOUS
<1>2. /\ At(t, "idle") /\ mem[l] = "unused" /\ NoConflict(t, F)
      /\ mem' = [mem EXCEPT ![l] = "live"]
      /\ file' = [file EXCEPT ![l] = f]
      /\ prim' = [prim EXCEPT ![f] = <<l>> \o @]
      /\ known' = known \cup {f}
      /\ grp' = grp /\ sec' = sec /\ members' = members /\ mutex' = mutex /\ run' = run
  BY <1>1 DEF HdsOpen
<1>3. F.writes = {l} /\ F.uses = {l} /\ F.files = {f} /\ F.closes = {}
  BY <1>1 DEF NoFoot
<1>4. ClosingTypeOK
  BY DEF IInv
<1>5. run[t] = Idle /\ run'[t] = Idle
  BY <1>2 DEF IInv, ThreadInv, PlaceOf
<1>6. /\ run'[t].foot = NoFoot /\ run'[t].pc = "idle" /\ run'[t].group = NoGroup
  BY <1>5 DEF Idle
<1>7. \A u \in Thread : u # t => run'[u] = run[u] /\ ~Conflict(F, run[u].foot)
  BY <1>2 DEF NoConflict
<1>8. /\ prim' \in [File -> Seq(Loc)] /\ sec' \in [File -> Seq(Loc)]
      /\ Apart'
      /\ \A u \in Thread : u # t => ThreadInv(u)' /\ FlushOf(u)'
      /\ \A g \in File : ListsOf(g)'
      /\ \A g \in known' : KeptOf(g)'
      /\ \A m \in Loc : LiveOne(m)'
      /\ GroupsAgree'
  BY <1>2, <1>3, <1>6, <1>7, NewLocOk
<1>9. ClosingTypeOK'
  BY <1>2, <1>4, <1>8 DEF ClosingTypeOK
<1>10. ThreadInv(t)' /\ FlushOf(t)'
  BY <1>5, IdleOk
<1> QED
  BY <1>8, <1>9, <1>10 DEF IInv

\* datFind: a secondary locator, to be linked to the group of k.
LEMMA DatFindInv ==
    ASSUME IInv, NEW t \in Thread, NEW k \in Loc, NEW l \in Loc, DatFind(t, k, l)
    PROVE  IInv'
<1>1. PICK f : f = file[k]
  OBVIOUS
<1>2. PICK F : F = [NoFoot EXCEPT !.writes = {l}, !.uses = {k, l}, !.files = {f}]
  OBVIOUS
<1>3. /\ At(t, "idle") /\ mem[k] = "live" /\ mem[l] = "unused" /\ NoConflict(t, F)
      /\ mem' = [mem EXCEPT ![l] = "live"]
      /\ file' = [file EXCEPT ![l] = f]
      /\ sec' = [sec EXCEPT ![f] = <<l>> \o @]
      /\ run' = IF grp[k] = NoGroup THEN run
                ELSE [run EXCEPT ![t] = [Idle EXCEPT !.pc = "link", !.loc = l,
                                                     !.group = grp[k], !.foot = F]]
      /\ grp' = grp /\ prim' = prim /\ known' = known /\ members' = members /\ mutex' = mutex
  BY <1>1, <1>2 DEF DatFind
<1>4. F.writes = {l} /\ F.uses = {k, l} /\ F.files = {f} /\ F.closes = {}
  BY <1>2 DEF NoFoot
<1>5. ClosingTypeOK
  BY DEF IInv
<1>6. f \in known /\ f \in File
  BY <1>1, <1>3, <1>5 DEF IInv, LiveOne, ClosingTypeOK
<1>7. PICK g \in Group \cup {NoGroup} : g = grp[k]
  BY <1>5 DEF ClosingTypeOK
<1>8. run[t] = Idle
  BY <1>3 DEF IInv, ThreadInv, PlaceOf
<1>9. CASE g = NoGroup
  <2>1. run' = run /\ run'[t] = Idle
    BY <1>3, <1>7, <1>8, <1>9
  <2>2. run'[t].foot = NoFoot /\ run'[t].pc = "idle" /\ run'[t].group = NoGroup
    BY <2>1 DEF Idle
  <2>3. \A u \in Thread : u # t => run'[u] = run[u] /\ ~Conflict(F, run[u].foot)
    BY <1>3, <2>1 DEF NoConflict
  <2>4. /\ prim' \in [File -> Seq(Loc)] /\ sec' \in [File -> Seq(Loc)]
        /\ Apart'
        /\ \A u \in Thread : u # t => ThreadInv(u)' /\ FlushOf(u)'
        /\ \A h \in File : ListsOf(h)'
        /\ \A h \in known' : KeptOf(h)'
        /\ \A m \in Loc : LiveOne(m)'
        /\ GroupsAgree'
    <3>1. known' = known \cup {f} /\ l \in F.uses
      BY <1>3, <1>4, <1>6
    <3> QED
      BY <1>3, <1>4, <1>6, <2>2, <2>3, <3>1, NewLocOk
  <2>5. ClosingTypeOK'
    BY <1>3, <1>5, <1>6, <2>1, <2>4 DEF ClosingTypeOK
  <2>6. ThreadInv(t)' /\ FlushOf(t)'
    BY <2>1, IdleOk
  <2> QED
    BY <2>4, <2>5, <2>6 DEF IInv
<1>10. CASE g # NoGroup
  <2>1. run' = [run EXCEPT ![t] = [Idle EXCEPT !.pc = "link", !.loc = l, !.group = g, !.foot = F]]
    BY <1>3, <1>7, <1>10
  <2>2. /\ run'[t] = [Idle EXCEPT !.pc = "link", !.loc = l, !.group = g, !.foot = F]
        /\ \A u \in Thread : u # t => run'[u] = run[u]
    BY <1>5, <2>1 DEF ClosingTypeOK
  <2>3. /\ run'[t].pc = "link" /\ run'[t].loc = l /\ run'[t].queue = <<>>
        /\ run'[t].group = g /\ run'[t].target = NoLoc
        /\ run'[t].closing = NoFile /\ run'[t].foot = F
    BY <2>2 DEF Idle
  <2>4. \A u \in Thread : u # t => run'[u] = run[u] /\ ~Conflict(F, run[u].foot)
    BY <1>3, <2>2 DEF NoConflict
  <2>5. /\ prim' \in [File -> Seq(Loc)] /\ sec' \in [File -> Seq(Loc)]
        /\ Apart'
        /\ \A u \in Thread : u # t => ThreadInv(u)' /\ FlushOf(u)'
        /\ \A h \in File : ListsOf(h)'
        /\ \A h \in known' : KeptOf(h)'
        /\ \A m \in Loc : LiveOne(m)'
        /\ GroupsAgree'
    <3>1. known' = known \cup {f} /\ l \in F.uses
      BY <1>3, <1>4, <1>6
    <3> QED
      BY ZenonT(40), <1>3, <1>4, <1>6, <2>3, <2>4, <3>1, NewLocOk
  <2>6. ClosingTypeOK'
    <3>1. F \in Footprint
      BY <1>2, <1>6 DEF NoFoot, Footprint
    <3>2. <<>> \in Seq(Loc)
      OBVIOUS
    <3>3. [Idle EXCEPT !.pc = "link", !.loc = l, !.group = g, !.foot = F] \in Runs
      BY <3>1, <3>2 DEF Idle, Runs, PcKind
    <3>4. run' \in [Thread -> Runs]
      BY <1>5, <2>1, <3>3 DEF ClosingTypeOK
    <3> QED
      BY <1>3, <1>5, <1>6, <2>5, <3>4 DEF ClosingTypeOK
  <2>7. l # NoLoc /\ mem'[l] = "live" /\ file'[l] = f
    BY <1>3, <1>5 DEF ClosingTypeOK
  <2>8. ToSet(<<>>) = {} /\ IsInjective(<<>>)
    BY DEF ToSet, IsInjective
  <2>9. Held(t)' = {l} /\ Coming(t)' = {}
    BY <2>3, <2>7, <2>8 DEF Held, Coming, At
  <2>10. ~Annulling(t)' /\ ~Targeting(t)' /\ ~Flushing(t)' /\ ~At(t, "clear")'
    BY <2>3 DEF Annulling, Targeting, Flushing, At
  <2>11. ThreadInv(t)'
    <3>1. PlaceOf(t)'
      BY <1>4, <1>10, <2>3, <2>7, <2>10 DEF PlaceOf, At
    <3>2. FootOf(t)'
      BY <1>4, <2>3, <2>7, <2>9 DEF FootOf
    <3>3. PointersOf(t)'
      BY <2>3, <2>7, <2>8, <2>9, <2>10 DEF PointersOf
    <3>4. CascadeOf(t)'
      BY <2>3 DEF CascadeOf
    <3>5. ToCloseOf(t)'
      BY <1>4, <2>3 DEF ToCloseOf
    <3> QED
      BY <3>1, <3>2, <3>3, <3>4, <3>5 DEF ThreadInv
  <2>12. FlushOf(t)'
    BY <2>10 DEF FlushOf
  <2> QED
    BY <2>5, <2>6, <2>11, <2>12 DEF IInv
<1> QED
  BY <1>9, <1>10

\* A locator that is linked to the group g leaves the other groups; no group is
\* being flushed, and the thread is in no call afterwards.
LEMMA JoinInv ==
    ASSUME IInv, NEW t \in Thread, NEW l \in Loc, NEW g \in Group, JoinGroup(l, g),
           mem[l] = "live", NEW F, l \in F.writes,
           \A u \in Thread : u # t => run'[u] = run[u] /\ ~Conflict(F, run[u].foot),
           run[t].pc \in {"idle", "link"}, run[t].foot.closes = {},
           run' \in [Thread -> Runs], run'[t] = Idle
    PROVE  IInv'
<1>1. ClosingTypeOK
  BY DEF IInv
<1>2. /\ mutex = NoThread
      /\ grp' = [grp EXCEPT ![l] = g]
      /\ members' = IF grp[l] = g THEN members
                    ELSE [h \in Group |-> IF h = g THEN Append(members[h], l)
                                          ELSE Without(members[h], l)]
      /\ mem' = mem /\ file' = file /\ prim' = prim /\ sec' = sec /\ known' = known
      /\ mutex' = mutex
  BY DEF JoinGroup
<1>3. grp'[l] = g /\ \A m : m # l => grp'[m] = grp[m]
  <2>1. grp'[l] = g
    BY <1>1, <1>2 DEF ClosingTypeOK
  <2> QED
    BY <1>1, <1>2, <2>1 DEF ClosingTypeOK
<1>4. /\ ~Unlisting(t) /\ ~Targeting(t) /\ ~At(t, "clear")
      /\ ~Flushing(t)' /\ ~At(t, "clear")' /\ \A m : ~Unlisted(t, m)'
  BY IdleOk DEF Unlisting, Targeting, At
<1>5. \A u \in Thread : ~Flushing(u) /\ ~Flushing(u)'
  <2>1. \A u \in Thread : ~Flushing(u)
    BY <1>2 DEF IInv, FlushOf
  <2> QED
    BY <1>4, <2>1 DEF Flushing, At
<1>6. BeingFlushed = {} /\ BeingFlushed' = {}
  BY <1>5 DEF BeingFlushed
<1>7. ASSUME NEW h \in Group
      PROVE  /\ members'[h] \in Seq(Loc) /\ IsInjective(members'[h])
             /\ grp[l] = g => ToSet(members'[h]) = ToSet(members[h])
             /\ grp[l] # g /\ h = g => ToSet(members'[h]) = ToSet(members[h]) \cup {l}
             /\ grp[l] # g /\ h # g => ToSet(members'[h]) = ToSet(members[h]) \ {l}
  <2>1. members[h] \in Seq(Loc) /\ IsInjective(members[h])
    BY <1>1 DEF IInv, ClosingTypeOK, GroupsAgree
  <2>2. CASE grp[l] = g
    BY <1>2, <2>1, <2>2
  <2>3. CASE grp[l] # g /\ h = g
    <3>1. members'[h] = Append(members[h], l)
      BY <1>2, <2>3
    <3>2. l \notin ToSet(members[h])
      BY <1>6, <2>3 DEF IInv, GroupsAgree
    <3>3. /\ Append(members[h], l) \in Seq(Loc) /\ IsInjective(Append(members[h], l))
          /\ ToSet(Append(members[h], l)) = ToSet(members[h]) \cup {l}
      BY <2>1, <3>2, AppendOk
    <3> QED
      BY <2>3, <3>1, <3>3
  <2>4. CASE grp[l] # g /\ h # g
    <3>1. members'[h] = Without(members[h], l)
      BY <1>2, <2>4
    <3>2. /\ Without(members[h], l) \in Seq(Loc) /\ IsInjective(Without(members[h], l))
          /\ ToSet(Without(members[h], l)) = ToSet(members[h]) \ {l}
      BY <2>1, WithoutOk
    <3> QED
      BY <2>4, <3>1, <3>2
  <2> QED
    BY <2>2, <2>3, <2>4
<1>8. ClosingTypeOK'
  <2>1. members' \in [Group -> Seq(Loc)]
    <3>1. members' = [h \in Group |-> members'[h]]
      BY <1>1, <1>2 DEF ClosingTypeOK
    <3> QED
      BY <1>7, <3>1
  <2>2. grp' \in [Loc -> Group \cup {NoGroup}]
    BY <1>1, <1>2 DEF ClosingTypeOK
  <2> QED
    BY <1>1, <1>2, <2>1, <2>2 DEF ClosingTypeOK
<1>9. Apart' /\ \A u \in Thread : u # t => ThreadInv(u)' /\ FlushOf(u)'
  <2>1. \A m \in Loc : m \notin F.writes =>
               /\ mem'[m] = mem[m] /\ file'[m] = file[m] /\ grp'[m] = grp[m]
               /\ \A h \in Group : m \in ToSet(members'[h]) => m \in ToSet(members[h])
    <3> SUFFICES ASSUME NEW m \in Loc, m # l
                 PROVE  /\ mem'[m] = mem[m] /\ file'[m] = file[m] /\ grp'[m] = grp[m]
                        /\ \A h \in Group : m \in ToSet(members'[h]) => m \in ToSet(members[h])
      OBVIOUS
    <3>1. \A h \in Group : m \in ToSet(members'[h]) => m \in ToSet(members[h])
      BY <1>7
    <3> QED
      BY <1>2, <1>3, <3>1
  <2>2. run'[t].foot = NoFoot
    BY IdleOk
  <2> QED
    BY <1>2, <1>4, <1>5, <2>1, <2>2, OthersOk
<1>10. ThreadInv(t)' /\ FlushOf(t)'
  BY IdleOk
<1>11. \A u \in Thread : \A m : Unlisted(u, m)' = Unlisted(u, m)
  <2> SUFFICES ASSUME NEW u \in Thread, NEW m PROVE Unlisted(u, m)' = Unlisted(u, m)
    OBVIOUS
  <2>1. CASE u = t
    BY <1>4, <2>1 DEF Unlisted
  <2>2. CASE u # t
    BY <2>2 DEF Unlisted, Unlisting, Targeting
  <2> QED
    BY <2>1, <2>2
<1>12. \A f \in File : ListsOf(f)'
  BY SMTT(40), <1>2, <1>11 DEF IInv, ListsOf, Listed
<1>13. \A m \in Loc : LiveOne(m)'
  BY <1>2, <1>11 DEF IInv, LiveOne, Listed
<1>14. ASSUME NEW f \in known' PROVE KeptOf(f)'
  <2>1. KeptOf(f)
    BY <1>2, <1>14 DEF IInv
  <2>2. \A u \in Thread : /\ run[u].foot.closes \subseteq run'[u].foot.closes
                          /\ run'[u].foot.writes \subseteq run[u].foot.writes
    <3>1. run'[t].foot.writes = {}
      BY IdleOk
    <3> QED
      BY <3>1
  <2> QED
    BY <1>2, <2>1, <2>2 DEF KeptOf
<1>15. GroupsAgree'
  <2> SUFFICES ASSUME NEW h \in Group, NEW m \in Loc
               PROVE  /\ m \in ToSet(members'[h]) => grp'[m] = h /\ mem[m] = "live"
                      /\ grp'[m] = h => \/ m \in ToSet(members'[h])
                                        \/ \E u \in Thread : At(u, "clear")' /\ run'[u].target = m
    BY <1>2, <1>7 DEF GroupsAgree
  <2>1. /\ m \in ToSet(members[h]) => grp[m] = h /\ mem[m] = "live"
        /\ grp[m] = h => \/ m \in ToSet(members[h])
                         \/ \E u \in Thread : At(u, "clear") /\ run[u].target = m
    BY <1>6 DEF IInv, GroupsAgree
  <2>2. \A u \in Thread : At(u, "clear") => At(u, "clear")' /\ run'[u].target = run[u].target
    BY <1>4 DEF At
  <2>3. CASE m # l
    <3>1. m \in ToSet(members'[h]) <=> m \in ToSet(members[h])
      BY <1>7, <2>3
    <3> QED
      BY <1>3, <2>1, <2>2, <2>3, <3>1
  <2>4. CASE m = l /\ grp[l] = g
    <3>1. ToSet(members'[h]) = ToSet(members[h]) /\ grp'[m] = grp[m]
      BY <1>3, <1>7, <2>4
    <3> QED
      BY <2>1, <2>2, <3>1
  <2>5. CASE m = l /\ grp[l] # g
    <3>1. m \in ToSet(members'[h]) <=> h = g
      BY <1>7, <2>5
    <3> QED
      BY <1>3, <2>5, <3>1
  <2> QED
    BY <2>3, <2>4, <2>5
<1> QED
  BY <1>8, <1>9, <1>10, <1>12, <1>13, <1>14, <1>15 DEF IInv

\* hdsLink, called by the program.
LEMMA HdsLinkInv ==
    ASSUME IInv, NEW t \in Thread, NEW l \in Loc, NEW g \in Group, HdsLink(t, l, g)
    PROVE  IInv'
<1>1. PICK F : F = [NoFoot EXCEPT !.writes = {l}, !.uses = {l}, !.files = {file[l]}]
  OBVIOUS
<1>2. /\ At(t, "idle") /\ mem[l] = "live" /\ NoConflict(t, F) /\ JoinGroup(l, g) /\ run' = run
  BY <1>1 DEF HdsLink
<1>3. l \in F.writes
  BY <1>1 DEF NoFoot
<1>4. run[t].pc = "idle" /\ run[t] = Idle
  BY <1>2 DEF IInv, ThreadInv, PlaceOf, At
<1>5. run[t].foot.closes = {}
  BY <1>4 DEF Idle, NoFoot
<1>6. run' \in [Thread -> Runs]
  BY <1>2 DEF IInv, ClosingTypeOK
<1>7. \A u \in Thread : u # t => run'[u] = run[u] /\ ~Conflict(F, run[u].foot)
  BY <1>2 DEF NoConflict
<1>8. run[t].pc \in {"idle", "link"} /\ run'[t] = Idle
  BY <1>2, <1>4
<1> QED
  BY <1>2, <1>3, <1>5, <1>6, <1>7, <1>8, JoinInv

\* hdsLink, called for a locator that was found through another.
LEMMA LinkFoundInv ==
    ASSUME IInv, NEW t \in Thread, LinkFound(t)
    PROVE  IInv'
<1>1. /\ At(t, "link") /\ JoinGroup(run[t].loc, run[t].group)
      /\ run' = [run EXCEPT ![t] = Idle]
  BY DEF LinkFound
<1>2. ClosingTypeOK
  BY DEF IInv
<1>3. /\ run[t].pc = "link" /\ run[t].foot.closes = {}
      /\ run[t].group # NoGroup /\ run[t].loc # NoLoc /\ mem[run[t].loc] = "live"
  BY <1>1 DEF IInv, ThreadInv, PlaceOf, At
<1>4. PICK l \in Loc : l = run[t].loc
  BY <1>2, <1>3, RunTyped
<1>5. PICK g \in Group : g = run[t].group
  BY <1>2, <1>3, RunTyped
<1>6. JoinGroup(l, g) /\ mem[l] = "live"
  BY <1>1, <1>3, <1>4, <1>5
<1>7. l \in run[t].foot.writes
  BY <1>3, <1>4 DEF IInv, ThreadInv, FootOf, Held
<1>8. run'[t] = Idle /\ \A u \in Thread : u # t => run'[u] = run[u]
  BY <1>1, <1>2 DEF ClosingTypeOK
<1>9. run' \in [Thread -> Runs]
  BY <1>1, <1>2, <1>8, IdleOk DEF ClosingTypeOK
<1>10. \A u \in Thread : u # t => run'[u] = run[u] /\ ~Conflict(run[t].foot, run[u].foot)
  BY <1>8, OwnFoot
<1> QED
  BY <1>3, <1>6, <1>7, <1>8, <1>9, <1>10, JoinInv

\* Every step keeps the invariant.
LEMMA NextInv == IInv /\ [Next]_vars => IInv'
<1> SUFFICES ASSUME IInv, [Next]_vars PROVE IInv'
  OBVIOUS
<1>1. CASE UNCHANGED vars
  <2>1. /\ mem' = mem /\ file' = file /\ grp' = grp /\ prim' = prim /\ sec' = sec
        /\ known' = known /\ members' = members /\ mutex' = mutex /\ run' = run
    BY <1>1 DEF vars, locVars
  <2>2. ClosingTypeOK' /\ Apart'
    BY <2>1 DEF IInv, ClosingTypeOK, Apart
  <2>3. \A t \in Thread : ThreadInv(t)'
    BY <2>1, Undisturbed
  <2>4. \A u \in Thread : (\A w : At(u, w)' = At(u, w)) /\ Flushing(u)' = Flushing(u)
    BY <2>1 DEF At, Flushing
  <2>5. \A t \in Thread : FlushOf(t)'
    BY <2>1, <2>4 DEF IInv, FlushOf
  <2>6. \A u \in Thread : \A m : Unlisted(u, m)' = Unlisted(u, m)
    BY <2>1 DEF Unlisted, Unlisting, Targeting
  <2>7. \A f \in File : ListsOf(f)'
    BY <2>1, <2>6 DEF IInv, ListsOf, Listed
  <2>8. \A l \in Loc : LiveOne(l)'
    BY <2>1, <2>6 DEF IInv, LiveOne, Listed
  <2>9. \A f \in known' : KeptOf(f)'
    BY <2>1 DEF IInv, KeptOf
  <2>10. GroupsAgree'
    BY <2>1, <2>4, SameGroups
  <2> QED
    BY <2>2, <2>3, <2>5, <2>7, <2>8, <2>9, <2>10 DEF IInv
<1>2. CASE Next
  <2>1. PICK t \in Thread : Call(t) \/ Inside(t)
    BY <1>2 DEF Next
  <2>2. CASE Call(t)
    BY <2>2, HdsOpenInv, DatFindInv, HdsLinkInv, DatAnnulInv, HdsFlushInv DEF Call
  <2>3. CASE Inside(t)
    BY <2>3, LinkFoundInv, UnregisterInv, PopInv, TestGroupInv, LeaveGroupInv, ClearInv,
       CloseFileInv, FreeLocInv, NextElementInv, FlushEndInv DEF Inside
  <2> QED
    BY <2>1, <2>2, <2>3
<1> QED
  BY <1>1, <1>2

\* The invariant holds in every state, so these do.
LEMMA Invariance == Spec => []IInv
<1> QED
  BY InitInv, NextInv, PTL DEF Spec

-----------------------------------------------------------------------------
(* What the program may rely on *)

\* The arrays of the groups and the names in the locators agree, whatever
\* threads link, annul and flush (hdsLink, hdsFlush, dat1Anloc).
THEOREM GroupsStayInStep == Spec => []GroupsAgree
<1>1. IInv => GroupsAgree
  BY DEF IInv
<1> QED
  BY <1>1, Invariance, PTL

\* No thread keeps a pointer to a locator that has been freed, in the array it
\* flushes or in the cascade (hdsFlush, dat1Annul).
THEOREM PointersGood == Spec => []NothingFreed
<1>1. IInv => NothingFreed
  BY DEF IInv, ThreadInv, PointersOf, Held, NothingFreed
<1> QED
  BY <1>1, Invariance, PTL

\* A locator that is not annulled belongs to an open file: the cascade has
\* reached all the locators of a file before the file is closed (dat1Annul).
THEOREM LiveLocatorsUsable == Spec => []LiveInOpenFile
<1>1. IInv => LiveInOpenFile
  BY DEF IInv, LiveOne, LiveInOpenFile
<1> QED
  BY <1>1, Invariance, PTL

\* When hdsFlush is at the end of its array, all that was in it is freed.
THEOREM FlushAnnulsAll == Spec => []FlushComplete
<1>1. IInv => FlushComplete
  <2> SUFFICES ASSUME IInv, NEW t \in Thread, At(t, "next"), run[t].queue = <<>>,
                      NEW l \in ToSet(members[run[t].group])
               PROVE  mem[l] = "freed"
    BY DEF FlushComplete
  <2>1. run[t].group # NoGroup /\ run[t].loc = NoLoc
    BY DEF IInv, ThreadInv, PlaceOf
  <2>2. Flushing(t)
    BY <2>1 DEF Flushing, At
  <2>3. l \in ToSet(run[t].queue) \/ mem[l] = "freed" \/ l = run[t].loc
    BY <2>2 DEF IInv, FlushOf
  <2>4. ToSet(run[t].queue) = {}
    BY DEF ToSet
  <2>5. run[t].group \in Group
    BY <2>1, RunTyped DEF IInv
  <2>6. members[run[t].group] \in Seq(Loc)
    BY <2>5 DEF IInv, ClosingTypeOK
  <2>7. l \in Loc
    BY <2>6 DEF ToSet
  <2> QED
    BY <2>1, <2>3, <2>4, <2>7
<1> QED
  BY <1>1, Invariance, PTL

-----------------------------------------------------------------------------
(* Closing implements ContainerFile *)

Owners(f) == IF f \in Closing THEN {} ELSE ToSet(prim[f])
Guests(f) == IF f \in Closing THEN {} ELSE ToSet(sec[f])

\* A step after which the files that are open, and the locators of each, are
\* the same, is no step of ContainerFile.
LEMMA StutterOwned ==
    ASSUME known' \ Closing' = known \ Closing,
           \A f \in File : Owners(f)' = Owners(f) /\ Guests(f)' = Guests(f)
    PROVE  UNCHANGED Owned!vars
<1>1. /\ [f \in File |-> Owners(f)'] = [f \in File |-> Owners(f)]
      /\ [f \in File |-> Guests(f)'] = [f \in File |-> Guests(f)]
  OBVIOUS
<1> QED
  BY <1>1 DEF Owned!vars, Owners, Guests

\* The files that are being closed can be told from what the threads close.
LEMMA SameClosing ==
    ASSUME \A u \in Thread : run'[u].closing = run[u].closing
    PROVE  Closing' = Closing
  BY DEF Closing

\* A file that a thread is closing is in its footprint.
LEMMA ClosingInFoot ==
    ASSUME IInv, NEW f \in Closing
    PROVE  /\ f \in known /\ prim[f] = <<>>
           /\ \E u \in Thread : /\ run[u].closing = f /\ f \in run[u].foot.closes
                                /\ ToSet(sec[f]) \subseteq run[u].foot.writes
<1>1. PICK u \in Thread : run[u].closing = f /\ f # NoFile
  BY DEF Closing
<1>2. f \in run[u].foot.closes \cap known /\ prim[f] = <<>>
  BY <1>1 DEF IInv, ThreadInv, CascadeOf
<1>3. ToSet(sec[f]) \subseteq run[u].foot.writes
  BY <1>2 DEF IInv, ThreadInv, ToCloseOf
<1> QED
  BY <1>1, <1>2, <1>3

\* hdsOpen: the locator becomes an owner.
LEMMA HdsOpenOwned ==
    ASSUME IInv, NEW t \in Thread, NEW l \in Loc, NEW f \in File, HdsOpen(t, l, f)
    PROVE  Owned!Open(f, l)
<1> DEFINE O == [g \in File |-> Owners(g)]
           G == [g \in File |-> Guests(g)]
<1>1. /\ At(t, "idle") /\ mem[l] = "unused"
      /\ NoConflict(t, [NoFoot EXCEPT !.writes = {l}, !.uses = {l}, !.files = {f}])
      /\ prim' = [prim EXCEPT ![f] = <<l>> \o @]
      /\ known' = known \cup {f}
      /\ sec' = sec /\ run' = run
  BY DEF HdsOpen
<1>2. f \notin Closing
  <2> SUFFICES ASSUME f \in Closing PROVE FALSE
    OBVIOUS
  <2>1. PICK u \in Thread : run[u].closing = f /\ f \in run[u].foot.closes
    BY ClosingInFoot
  <2>2. run[t].foot.closes = {}
    BY <1>1 DEF IInv, ThreadInv, PlaceOf, Idle, NoFoot
  <2>3. u \in Thread \ {t}
    BY <2>1, <2>2
  <2> QED
    BY <1>1, <2>1, <2>3 DEF NoConflict, Conflict, NoFoot
<1>3. Closing' = Closing
  BY <1>1, SameClosing
<1>4. ClosingTypeOK /\ ListsOf(f)
  BY DEF IInv
<1>5. /\ \A g \in File : l \notin Listed(g)
  BY <1>1, FreshOk
<1>6. /\ ToSet(prim'[f]) = ToSet(prim[f]) \cup {l}
      /\ \A g \in File : g # f => prim'[g] = prim[g]
  <2>1. prim[f] \in Seq(Loc) /\ IsInjective(prim[f]) /\ l \notin ToSet(prim[f])
    BY <1>4, <1>5 DEF ClosingTypeOK, ListsOf, Listed
  <2>2. PICK s : s = prim[f]
    OBVIOUS
  <2>3. ToSet(<<l>> \o s) = {l} \cup ToSet(s)
    BY <2>1, <2>2, HeadOk
  <2>4. prim'[f] = <<l>> \o s
    BY <1>1, <1>4, <2>2 DEF ClosingTypeOK
  <2> QED
    BY <1>1, <1>4, <2>2, <2>3, <2>4 DEF ClosingTypeOK
<1>7. O' = [O EXCEPT ![f] = @ \cup {l}] /\ G' = G
  <2>1. \A g \in File : /\ Owners(g)' = IF g = f THEN Owners(g) \cup {l} ELSE Owners(g)
                        /\ Guests(g)' = Guests(g)
    <3>1. Owners(f)' = Owners(f) \cup {l}
      BY <1>2, <1>3, <1>6 DEF Owners
    <3>2. \A g \in File : g # f => Owners(g)' = Owners(g)
      BY <1>3, <1>6 DEF Owners
    <3>3. \A g \in File : Guests(g)' = Guests(g)
      BY <1>1, <1>3 DEF Guests
    <3> QED
      BY <3>1, <3>2, <3>3
  <2>2. [g \in File |-> Owners(g)'] = [[g \in File |-> Owners(g)] EXCEPT ![f] = @ \cup {l}]
    BY <2>1
  <2>3. [g \in File |-> Guests(g)'] = [g \in File |-> Guests(g)]
    BY <2>1
  <2> QED
    BY <2>2, <2>3
<1>8. l \notin Owned!InUse
  BY <1>5 DEF Owned!InUse, Owned!Users, Listed
<1>9. known' \ Closing' = (known \ Closing) \cup {f}
  BY <1>1, <1>2, <1>3
<1> QED
  BY <1>7, <1>8, <1>9 DEF Owned!Open, Owners, Guests

\* datFind: the locator becomes a guest of a file that is open.
LEMMA DatFindOwned ==
    ASSUME IInv, NEW t \in Thread, NEW k \in Loc, NEW l \in Loc, DatFind(t, k, l)
    PROVE  \E f \in File : Owned!Join(f, l)
<1> DEFINE O == [g \in File |-> Owners(g)]
           G == [g \in File |-> Guests(g)]
<1>1. ClosingTypeOK
  BY DEF IInv
<1>2. mem[k] = "live"
  BY DEF DatFind
<1>3. PICK f \in File : f = file[k] /\ f \in known
  BY <1>1, <1>2 DEF IInv, LiveOne, ClosingTypeOK
<1>4. PICK F : F = [NoFoot EXCEPT !.writes = {l}, !.uses = {k, l}, !.files = {f}]
  OBVIOUS
<1>5. /\ At(t, "idle") /\ mem[l] = "unused" /\ NoConflict(t, F)
      /\ sec' = [sec EXCEPT ![f] = <<l>> \o @]
      /\ prim' = prim /\ known' = known
      /\ run' = IF grp[k] = NoGroup THEN run
                ELSE [run EXCEPT ![t] = [Idle EXCEPT !.pc = "link", !.loc = l,
                                                     !.group = grp[k], !.foot = F]]
  BY <1>3, <1>4 DEF DatFind
<1>6. run[t].closing = NoFile /\ run[t].foot.closes = {}
  BY <1>5 DEF IInv, ThreadInv, PlaceOf, Idle, NoFoot
<1>7. f \notin Closing
  <2> SUFFICES ASSUME f \in Closing PROVE FALSE
    OBVIOUS
  <2>1. PICK u \in Thread : run[u].closing = f /\ f \in run[u].foot.closes
    BY ClosingInFoot
  <2>2. u \in Thread \ {t}
    BY <1>6, <2>1
  <2> QED
    BY <1>4, <1>5, <2>1, <2>2 DEF NoConflict, Conflict, NoFoot
<1>8. Closing' = Closing
  <2>1. run'[t].closing = NoFile /\ \A u \in Thread : u # t => run'[u] = run[u]
    BY <1>1, <1>5, <1>6 DEF ClosingTypeOK, Idle
  <2> QED
    BY <1>6, <2>1, SameClosing
<1>9. \A g \in File : l \notin Listed(g)
  BY <1>5, FreshOk
<1>10. /\ ToSet(sec'[f]) = ToSet(sec[f]) \cup {l}
       /\ \A g \in File : g # f => sec'[g] = sec[g]
  <2>1. sec[f] \in Seq(Loc) /\ IsInjective(sec[f]) /\ l \notin ToSet(sec[f])
    BY <1>1, <1>9 DEF IInv, ClosingTypeOK, ListsOf, Listed
  <2>2. PICK s : s = sec[f]
    OBVIOUS
  <2>3. ToSet(<<l>> \o s) = {l} \cup ToSet(s)
    BY <2>1, <2>2, HeadOk
  <2>4. sec'[f] = <<l>> \o s
    BY <1>1, <1>5, <2>2 DEF ClosingTypeOK
  <2> QED
    BY <1>1, <1>5, <2>2, <2>3, <2>4 DEF ClosingTypeOK
<1>11. G' = [G EXCEPT ![f] = @ \cup {l}] /\ O' = O
  <2>1. \A g \in File : /\ Guests(g)' = IF g = f THEN Guests(g) \cup {l} ELSE Guests(g)
                        /\ Owners(g)' = Owners(g)
    <3>1. Guests(f)' = Guests(f) \cup {l}
      BY <1>7, <1>8, <1>10 DEF Guests
    <3>2. \A g \in File : g # f => Guests(g)' = Guests(g)
      BY <1>8, <1>10 DEF Guests
    <3>3. \A g \in File : Owners(g)' = Owners(g)
      BY <1>5, <1>8 DEF Owners
    <3> QED
      BY <3>1, <3>2, <3>3
  <2>2. [g \in File |-> Guests(g)'] = [[g \in File |-> Guests(g)] EXCEPT ![f] = @ \cup {l}]
    BY <2>1
  <2>3. [g \in File |-> Owners(g)'] = [g \in File |-> Owners(g)]
    BY <2>1
  <2> QED
    BY <2>2, <2>3
<1>12. l \notin Owned!InUse
  BY <1>9 DEF Owned!InUse, Owned!Users, Listed
<1>13. f \in known \ Closing /\ known' \ Closing' = known \ Closing
  BY <1>3, <1>5, <1>7, <1>8
<1>14. Owned!Join(f, l)
  BY <1>11, <1>12, <1>13 DEF Owned!Join, Owners, Guests
<1> QED
  BY <1>14

\* The locator is taken out of the lists: it leaves, or it was the last owner
\* and the file is closed; if it was cleared before, nothing changes.
LEMMA UnregisterOwned ==
    ASSUME IInv, NEW t \in Thread, Unregister(t)
    PROVE  \/ \E f \in File, l \in Loc : Owned!Leave(f, l) \/ Owned!Close(f, l)
           \/ UNCHANGED Owned!vars
<1> DEFINE O == [g \in File |-> Owners(g)]
           G == [g \in File |-> Guests(g)]
<1>1. ClosingTypeOK
  BY DEF IInv
<1>2. /\ run[t].pc = "unregister" /\ run[t].loc # NoLoc /\ run[t].closing = NoFile
      /\ run[t].loc \in run[t].foot.writes
  <2>1. run[t].pc = "unregister"
    BY DEF Unregister, At
  <2> QED
    BY <2>1 DEF IInv, ThreadInv, PlaceOf, Annulling, FootOf, Held
<1>3. PICK x \in Loc : x = run[t].loc
  BY <1>1, <1>2, RunTyped
<1>4. /\ prim' = [g \in File |-> Without(prim[g], x)]
      /\ sec' = [g \in File |-> Without(sec[g], x)]
      /\ known' = known
      /\ run'[t].closing = (IF LastPrimary(x) THEN file[x] ELSE NoFile)
      /\ \A u \in Thread : u # t => run'[u] = run[u]
  BY <1>1, <1>3, RunTyped DEF Unregister, ClosingTypeOK, Runs
<1>5. ASSUME NEW g \in File
      PROVE  /\ prim[g] \in Seq(Loc) /\ IsInjective(prim[g])
             /\ ToSet(prim'[g]) = ToSet(prim[g]) \ {x} /\ ToSet(sec'[g]) = ToSet(sec[g]) \ {x}
             /\ x \in Listed(g) => file[x] = g /\ g \notin Closing
  <2>1. /\ prim[g] \in Seq(Loc) /\ sec[g] \in Seq(Loc) /\ IsInjective(prim[g])
        /\ IsInjective(sec[g]) /\ ListsOf(g)
    BY <1>1 DEF IInv, ClosingTypeOK, ListsOf
  <2>2. /\ ToSet(Without(prim[g], x)) = ToSet(prim[g]) \ {x}
        /\ ToSet(Without(sec[g], x)) = ToSet(sec[g]) \ {x}
    BY <2>1, WithoutOk
  <2>3. ASSUME x \in Listed(g), g \in Closing PROVE FALSE
    <3>1. prim[g] = <<>>
      BY <2>3, ClosingInFoot
    <3>2. PICK u \in Thread : run[u].closing = g /\ ToSet(sec[g]) \subseteq run[u].foot.writes
      BY <2>3, ClosingInFoot
    <3>3. x \in run[u].foot.writes
      BY <2>3, <3>1, <3>2 DEF Listed, ToSet
    <3>4. g # NoFile
      OBVIOUS
    <3>5. u # t
      BY <1>2, <3>2, <3>4
    <3> QED
      BY <1>2, <1>3, <3>3, <3>5, FootsApart
  <2> QED
    BY <1>4, <2>1, <2>2, <2>3 DEF ListsOf
<1>6. CASE LastPrimary(x)
  <2>1. PICK f \in File : f = file[x] /\ prim[f] = <<x>>
    BY <1>1, <1>6 DEF LastPrimary, ClosingTypeOK
  <2>2. ToSet(prim[f]) = {x}
    BY <2>1 DEF ToSet
  <2>3. f \notin Closing /\ x \in Listed(f)
    BY <1>5, <2>2 DEF Listed
  <2>4. f # NoFile
    OBVIOUS
  <2>5. run'[t].closing = f
    BY <1>4, <1>6, <2>1
  <2>6. Closing' = Closing \cup {f}
    BY <1>2, <1>4, <2>4, <2>5 DEF Closing
  <2>7. \A g \in File : g # f => x \notin Listed(g)
    BY <1>5, <2>1
  <2>8. \A g \in File : /\ Owners(g)' = IF g = f THEN {} ELSE Owners(g)
                        /\ Guests(g)' = IF g = f THEN {} ELSE Guests(g)
    <3> SUFFICES ASSUME NEW g \in File
                 PROVE  /\ Owners(g)' = IF g = f THEN {} ELSE Owners(g)
                        /\ Guests(g)' = IF g = f THEN {} ELSE Guests(g)
      OBVIOUS
    <3>1. CASE g = f
      BY <2>6, <3>1 DEF Owners, Guests
    <3>2. CASE g # f
      <4>1. ToSet(prim'[g]) = ToSet(prim[g]) /\ ToSet(sec'[g]) = ToSet(sec[g])
        <5>1. x \notin ToSet(prim[g]) /\ x \notin ToSet(sec[g])
          BY <2>7, <3>2 DEF Listed
        <5>2. ToSet(prim'[g]) = ToSet(prim[g]) \ {x} /\ ToSet(sec'[g]) = ToSet(sec[g]) \ {x}
          BY <1>5
        <5> QED
          BY <5>1, <5>2
      <4> QED
        BY <2>6, <3>2, <4>1 DEF Owners, Guests
    <3> QED
      BY <3>1, <3>2
  <2>9. O' = [O EXCEPT ![f] = {}] /\ G' = [G EXCEPT ![f] = {}]
    <3>1. [g \in File |-> Owners(g)'] = [[g \in File |-> Owners(g)] EXCEPT ![f] = {}]
      BY <2>8
    <3>2. [g \in File |-> Guests(g)'] = [[g \in File |-> Guests(g)] EXCEPT ![f] = {}]
      BY <2>8
    <3> QED
      BY <3>1, <3>2
  <2>10. O[f] = {x}
    BY <2>2, <2>3 DEF Owners
  <2>11. known' \ Closing' = (known \ Closing) \ {f}
    BY <1>4, <2>6
  <2>12. Owned!Close(f, x)
    BY <2>9, <2>10, <2>11 DEF Owned!Close, Owners, Guests
  <2> QED
    BY <2>12
<1>7. CASE ~LastPrimary(x)
  <2>1. Closing' = Closing
    BY <1>2, <1>4, <1>7, SameClosing
  <2>2. CASE \E f \in File : x \in Listed(f)
    <3>1. PICK f \in File : x \in Listed(f)
      BY <2>2
    <3>2. f = file[x] /\ f \notin Closing /\ f # NoFile
      BY <1>5, <3>1
    <3>3. O[f] # {x}
      <4> SUFFICES ASSUME ToSet(prim[f]) = {x} PROVE FALSE
        BY <3>2 DEF Owners
      <4>1. prim[f] = <<x>>
        BY <1>5, ShortLists
      <4> QED
        BY <1>7, <3>2, <4>1 DEF LastPrimary
    <3>4. x \in O[f] \cup G[f]
      BY <3>1, <3>2 DEF Owners, Guests, Listed
    <3>5. \A g \in File : g # f => x \notin Listed(g)
      BY <1>5, <3>2
    <3>6. \A g \in File : /\ Owners(g)' = IF g = f THEN Owners(g) \ {x} ELSE Owners(g)
                          /\ Guests(g)' = IF g = f THEN Guests(g) \ {x} ELSE Guests(g)
      <4> SUFFICES ASSUME NEW g \in File
                   PROVE  /\ Owners(g)' = IF g = f THEN Owners(g) \ {x} ELSE Owners(g)
                          /\ Guests(g)' = IF g = f THEN Guests(g) \ {x} ELSE Guests(g)
        OBVIOUS
      <4>1. CASE g = f
        BY <1>5, <2>1, <3>2, <4>1 DEF Owners, Guests
      <4>2. CASE g # f
        <5>1. ToSet(prim'[g]) = ToSet(prim[g]) /\ ToSet(sec'[g]) = ToSet(sec[g])
          <6>1. x \notin ToSet(prim[g]) /\ x \notin ToSet(sec[g])
            BY <3>5, <4>2 DEF Listed
          <6>2. ToSet(prim'[g]) = ToSet(prim[g]) \ {x} /\ ToSet(sec'[g]) = ToSet(sec[g]) \ {x}
            BY <1>5
          <6> QED
            BY <6>1, <6>2
        <5> QED
          BY <2>1, <4>2, <5>1 DEF Owners, Guests
      <4> QED
        BY <4>1, <4>2
    <3>7. O' = [O EXCEPT ![f] = @ \ {x}] /\ G' = [G EXCEPT ![f] = @ \ {x}]
      <4>1. [g \in File |-> Owners(g)'] = [[g \in File |-> Owners(g)] EXCEPT ![f] = @ \ {x}]
        BY <3>6
      <4>2. [g \in File |-> Guests(g)'] = [[g \in File |-> Guests(g)] EXCEPT ![f] = @ \ {x}]
        BY <3>6
      <4> QED
        BY <4>1, <4>2
    <3>8. known' \ Closing' = known \ Closing
      BY <1>4, <2>1
    <3>9. Owned!Leave(f, x)
      BY <3>3, <3>4, <3>7, <3>8 DEF Owned!Leave, Owned!Users, Owners, Guests
    <3> QED
      BY <3>9
  <2>3. CASE \A f \in File : x \notin Listed(f)
    <3>1. \A g \in File : ToSet(prim'[g]) = ToSet(prim[g]) /\ ToSet(sec'[g]) = ToSet(sec[g])
      <4>1. \A g \in File : x \notin ToSet(prim[g]) /\ x \notin ToSet(sec[g])
        BY <2>3 DEF Listed
      <4>2. \A g \in File : /\ ToSet(prim'[g]) = ToSet(prim[g]) \ {x}
                            /\ ToSet(sec'[g]) = ToSet(sec[g]) \ {x}
        BY <1>5
      <4> QED
        BY <4>1, <4>2
    <3>2. \A g \in File : Owners(g)' = Owners(g) /\ Guests(g)' = Guests(g)
      BY <2>1, <3>1 DEF Owners, Guests
    <3> QED
      BY <1>4, <2>1, <3>2, StutterOwned
  <2> QED
    BY <2>2, <2>3
<1> QED
  BY <1>6, <1>7

\* The other steps leave the lists alone, or those of a file that is closed for
\* its users already.
LEMMA RestOwned ==
    ASSUME IInv, NEW t \in Thread,
           \/ \E l \in Loc : (\E g \in Group : HdsLink(t, l, g)) \/ DatAnnul(t, l)
           \/ \E g \in Group : HdsFlush(t, g)
           \/ LinkFound(t) \/ Pop(t) \/ TestGroup(t) \/ LeaveGroup(t) \/ Clear(t)
           \/ CloseFile(t) \/ FreeLoc(t) \/ NextElement(t) \/ FlushEnd(t)
    PROVE  UNCHANGED Owned!vars
<1>1. ClosingTypeOK /\ ThreadInv(t)
  BY DEF IInv
<1>2. At(t, "idle") => run[t].closing = NoFile
  BY <1>1 DEF ThreadInv, PlaceOf, At
<1>3. Idle.closing = NoFile
  BY DEF Idle
<1>4. ASSUME prim' = prim, sec' = sec, known' = known,
             run'[t].closing = run[t].closing, \A u \in Thread : u # t => run'[u] = run[u]
      PROVE  UNCHANGED Owned!vars
  <2>1. Closing' = Closing
    BY <1>4, SameClosing
  <2> QED
    BY <1>4, <2>1, StutterOwned DEF Owners, Guests
<1>5. CASE \E l \in Loc, g \in Group : HdsLink(t, l, g)
  BY <1>4, <1>5 DEF HdsLink, JoinGroup
<1>6. CASE \E l \in Loc : DatAnnul(t, l)
  <2>1. PICK l \in Loc : DatAnnul(t, l)
    BY <1>6
  <2>2. /\ At(t, "idle") /\ prim' = prim /\ sec' = sec /\ known' = known
        /\ run' = [run EXCEPT ![t] = [Idle EXCEPT !.pc = "unregister", !.loc = l,
                                                  !.foot = AnnulFoot(t, {l})]]
    BY <2>1 DEF DatAnnul
  <2>3. run'[t].closing = NoFile /\ \A u \in Thread : u # t => run'[u] = run[u]
    BY <1>1, <2>2 DEF ClosingTypeOK, Idle
  <2> QED
    BY <1>2, <1>4, <2>2, <2>3
<1>7. CASE \E g \in Group : HdsFlush(t, g)
  <2>1. PICK g \in Group : HdsFlush(t, g)
    BY <1>7
  <2>2. /\ At(t, "idle") /\ prim' = prim /\ sec' = sec /\ known' = known
        /\ run' = [run EXCEPT ![t] = [Idle EXCEPT !.pc = "next", !.group = g, !.queue = members[g],
                                                  !.foot = AnnulFoot(t, ToSet(members[g]))]]
    BY <2>1 DEF HdsFlush
  <2>3. run'[t].closing = NoFile /\ \A u \in Thread : u # t => run'[u] = run[u]
    BY <1>1, <2>2 DEF ClosingTypeOK, Idle
  <2> QED
    BY <1>2, <1>4, <2>2, <2>3
<1>8. CASE LinkFound(t)
  <2>1. /\ run[t].closing = NoFile /\ run'[t] = Idle /\ \A u \in Thread : u # t => run'[u] = run[u]
        /\ prim' = prim /\ sec' = sec /\ known' = known
    BY <1>1, <1>8 DEF LinkFound, JoinGroup, ThreadInv, PlaceOf, ClosingTypeOK, At
  <2> QED
    BY <1>3, <1>4, <2>1
<1>9. CASE Pop(t)
  <2> DEFINE f == run[t].closing
  <2>1. /\ f \in File /\ f \in Closing
    BY <1>1, <1>9, RunTyped DEF Pop, ThreadInv, PlaceOf, Closing, At
  <2>2. /\ prim' = prim /\ known' = known /\ \A g \in File : g # f => sec'[g] = sec[g]
    BY <1>1, <1>9 DEF Pop, ClosingTypeOK
  <2>3. run'[t].closing = run[t].closing /\ \A u \in Thread : u # t => run'[u] = run[u]
    BY <1>1, <1>9, RunTyped DEF Pop, ClosingTypeOK, Runs
  <2>4. Closing' = Closing
    BY <2>3, SameClosing
  <2> HIDE DEF f
  <2>5. \A g \in File : Owners(g)' = Owners(g) /\ Guests(g)' = Guests(g)
    BY <2>1, <2>2, <2>4 DEF Owners, Guests
  <2> QED
    BY <2>2, <2>4, <2>5, StutterOwned
<1>10. CASE TestGroup(t)
  <2>1. /\ run'[t].closing = run[t].closing /\ \A u \in Thread : u # t => run'[u] = run[u]
        /\ prim' = prim /\ sec' = sec /\ known' = known
    BY <1>1, <1>10, RunTyped DEF TestGroup, ClosingTypeOK, Runs
  <2> QED
    BY <1>4, <2>1
<1>11. CASE LeaveGroup(t)
  <2>1. /\ run'[t].closing = run[t].closing /\ \A u \in Thread : u # t => run'[u] = run[u]
        /\ prim' = prim /\ sec' = sec /\ known' = known
    BY <1>1, <1>11, RunTyped DEF LeaveGroup, ClosingTypeOK, Runs
  <2> QED
    BY <1>4, <2>1
<1>12. CASE Clear(t)
  <2>1. /\ run'[t].closing = run[t].closing /\ \A u \in Thread : u # t => run'[u] = run[u]
        /\ prim' = prim /\ sec' = sec /\ known' = known
    BY <1>1, <1>12, RunTyped DEF Clear, ClosingTypeOK, Runs
  <2> QED
    BY <1>4, <2>1
<1>13. CASE CloseFile(t)
  <2> DEFINE f == run[t].closing
  <2>1. /\ run[t].pc = "close" /\ f # NoFile /\ f \in known /\ f \in File /\ f \in run[t].foot.closes
        /\ prim[f] = <<>> /\ sec[f] = <<>>
    BY <1>1, <1>13, RunTyped DEF CloseFile, ThreadInv, PlaceOf, CascadeOf, At
  <2>2. prim' = prim /\ sec' = sec /\ known' = known \ {f}
    BY <1>1, <1>13, <2>1 DEF CloseFile, ClosingTypeOK
  <2>3. run'[t].closing = NoFile /\ \A u \in Thread : u # t => run'[u] = run[u]
    BY <1>1, <1>13, RunTyped DEF CloseFile, ClosingTypeOK, Runs
  <2>4. \A u \in Thread : u # t => run[u].closing # f
    <3> SUFFICES ASSUME NEW u \in Thread, u # t, run[u].closing = f PROVE FALSE
      OBVIOUS
    <3>1. f \in run[u].foot.closes
      BY <2>1 DEF IInv, ThreadInv, CascadeOf
    <3> QED
      BY <2>1, <3>1, FootsApart
  <2>5. Closing' = Closing \ {f} /\ f \in Closing
    BY <2>1, <2>3, <2>4 DEF Closing
  <2> HIDE DEF f
  <2>6. ToSet(prim[f]) = {} /\ ToSet(sec[f]) = {}
    BY <2>1 DEF ToSet
  <2>7. \A g \in File : Owners(g)' = Owners(g) /\ Guests(g)' = Guests(g)
    BY <2>2, <2>5, <2>6 DEF Owners, Guests
  <2>8. known' \ Closing' = known \ Closing
    BY <2>2, <2>5
  <2> QED
    BY <2>7, <2>8, StutterOwned
<1>14. CASE FreeLoc(t)
  <2>1. run[t].pc = "free" /\ run[t].closing = NoFile
    BY <1>1, <1>14 DEF FreeLoc, ThreadInv, PlaceOf, At
  <2>2. /\ run'[t].closing = NoFile /\ \A u \in Thread : u # t => run'[u] = run[u]
        /\ prim' = prim /\ sec' = sec /\ known' = known
    BY <1>1, <1>3, <1>14, <2>1, RunTyped DEF FreeLoc, ClosingTypeOK, Runs
  <2> QED
    BY <1>4, <2>1, <2>2
<1>15. CASE NextElement(t)
  <2>1. /\ run'[t].closing = run[t].closing /\ \A u \in Thread : u # t => run'[u] = run[u]
        /\ prim' = prim /\ sec' = sec /\ known' = known
    BY <1>1, <1>15, RunTyped DEF NextElement, ClosingTypeOK, Runs
  <2> QED
    BY <1>4, <2>1
<1>16. CASE FlushEnd(t)
  <2>1. /\ run[t].closing = NoFile /\ run'[t] = Idle /\ \A u \in Thread : u # t => run'[u] = run[u]
        /\ prim' = prim /\ sec' = sec /\ known' = known
    BY <1>1, <1>16 DEF FlushEnd, ThreadInv, PlaceOf, ClosingTypeOK, At
  <2> QED
    BY <1>3, <1>4, <2>1
<1> QED
  BY <1>5, <1>6, <1>7, <1>8, <1>9, <1>10, <1>11, <1>12, <1>13, <1>14, <1>15, <1>16

\* At the start no file is open.
LEMMA InitOwned == Init => Owned!Init
<1> SUFFICES ASSUME Init PROVE Owned!Init
  OBVIOUS
<1>1. /\ \A t \in Thread : run[t].closing = NoFile
      /\ \A f \in File : prim[f] = <<>> /\ sec[f] = <<>>
      /\ known = {}
  BY DEF Init, Idle
<1>2. \A f \in File : ToSet(prim[f]) = {} /\ ToSet(sec[f]) = {}
  BY <1>1 DEF ToSet
<1> QED
  BY <1>1, <1>2 DEF Owned!Init

\* Every step is a step of ContainerFile or leaves it unchanged.
LEMMA NextOwned == IInv /\ [Next]_vars => [Owned!Next]_(Owned!vars)
<1> SUFFICES ASSUME IInv, [Next]_vars PROVE Owned!Next \/ UNCHANGED Owned!vars
  OBVIOUS
<1>1. CASE UNCHANGED vars
  <2>1. prim' = prim /\ sec' = sec /\ known' = known /\ run' = run
    BY <1>1 DEF vars
  <2>2. Closing' = Closing
    BY <2>1, SameClosing
  <2> QED
    BY <2>1, <2>2, StutterOwned DEF Owners, Guests
<1>2. CASE Next
  <2>1. PICK t \in Thread : Call(t) \/ Inside(t)
    BY <1>2 DEF Next
  <2>2. CASE \E l \in Loc, f \in File : HdsOpen(t, l, f)
    <3>1. \E l \in Loc, f \in File : Owned!Open(f, l)
      BY <2>2, HdsOpenOwned
    <3> QED
      BY <3>1 DEF Owned!Next
  <2>3. CASE \E l \in Loc, k \in Loc : DatFind(t, k, l)
    <3>1. \E l \in Loc, f \in File : Owned!Join(f, l)
      BY <2>3, DatFindOwned
    <3> QED
      BY <3>1 DEF Owned!Next
  <2>4. CASE Unregister(t)
    <3>1. \/ \E f \in File, l \in Loc : Owned!Leave(f, l) \/ Owned!Close(f, l)
          \/ UNCHANGED Owned!vars
      BY <2>4, UnregisterOwned
    <3> QED
      BY <3>1 DEF Owned!Next
  <2>5. CASE \/ \E l \in Loc : (\E g \in Group : HdsLink(t, l, g)) \/ DatAnnul(t, l)
             \/ \E g \in Group : HdsFlush(t, g)
             \/ LinkFound(t) \/ Pop(t) \/ TestGroup(t) \/ LeaveGroup(t) \/ Clear(t)
             \/ CloseFile(t) \/ FreeLoc(t) \/ NextElement(t) \/ FlushEnd(t)
    BY <2>5, RestOwned
  <2> QED
    BY <2>1, <2>2, <2>3, <2>4, <2>5 DEF Call, Inside
<1> QED
  BY <1>1, <1>2

\* Annulling step by step, a file is closed at once for its users: it is open
\* as long as it has owners (dat1Annul, hds1UnregLocator).
THEOREM ClosingImplementsContainerFile == Spec => ImplementsContainerFile
<1> QED
  BY InitOwned, NextOwned, Invariance, PTL DEF Spec, ImplementsContainerFile, Owned!Spec
=============================================================================
