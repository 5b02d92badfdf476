--------------------------- MODULE RegistryProofs ---------------------------
(***************************************************************************)
(* Proofs about Registry: the types, that lists, flags and pointers agree,   *)
(* that no locator dangles, that a file is open exactly while it has a       *)
(* primary locator, and that requests to erase a file are honoured: whoever  *)
(* was asked about and the flags in the Handles are the same all along,      *)
(* since a tree that is freed takes its flags with it.                       *)
(***************************************************************************)
EXTENDS MCRegistry, ListsProofs, TLAPS

USE RegistryAssumption

\* Two files never share a tree of Handles.  NothingDangles is not inductive
\* without this: closing one file would erase the Handles of the other.
TreesApart ==
    \A k, l \in alloc :
        file[k] # NoFile /\ file[l] # NoFile /\ at[k].tree = at[l].tree
            => file[k] = file[l]

IInv == TypeOK /\ ListsAgree /\ NothingDangles /\ TreesApart

-----------------------------------------------------------------------------
(* Steps *)

\* A new locator in a list, for a Handle in a tree that no other file uses.
LEMMA RegisterInv ==
    ASSUME IInv, NEW l \in Loc, NEW f \in File, NEW h \in HandleSet, NEW p \in BOOLEAN,
           Register(l, f, h, p),
           known' \subseteq File, open' \subseteq File, onDisk' \subseteq File,
           trees' \subseteq Tree, flagged' \subseteq HandleSet,
           open \subseteq open', f \in open', trees \subseteq trees', h.tree \in trees',
           \A k \in alloc : file[k] # NoFile /\ at[k].tree = h.tree => file[k] = f
    PROVE  IInv'
<1>1. l \notin alloc /\ file[l] = NoFile
  BY DEF Register, IInv, ListsAgree
<1>2. \A g \in File : /\ prim[g] \in Seq(Loc) /\ IsInjective(prim[g]) /\ l \notin ToSet(prim[g])
                      /\ sec[g] \in Seq(Loc) /\ IsInjective(sec[g]) /\ l \notin ToSet(sec[g])
  BY <1>1 DEF IInv, ListsAgree, TypeOK
<1>3. /\ alloc' = alloc \cup {l}
      /\ file' = [file EXCEPT ![l] = f]
      /\ isprim' = [isprim EXCEPT ![l] = p]
      /\ at' = [at EXCEPT ![l] = h]
  BY DEF Register
<1>4. \A g \in File :
        /\ prim'[g] \in Seq(Loc) /\ IsInjective(prim'[g])
        /\ ToSet(prim'[g]) = ToSet(prim[g]) \cup IF p /\ g = f THEN {l} ELSE {}
        /\ sec'[g] \in Seq(Loc) /\ IsInjective(sec'[g])
        /\ ToSet(sec'[g]) = ToSet(sec[g]) \cup IF ~p /\ g = f THEN {l} ELSE {}
  <2> SUFFICES ASSUME NEW g \in File
               PROVE  /\ prim'[g] \in Seq(Loc) /\ IsInjective(prim'[g])
                      /\ ToSet(prim'[g]) = ToSet(prim[g]) \cup IF p /\ g = f THEN {l} ELSE {}
                      /\ sec'[g] \in Seq(Loc) /\ IsInjective(sec'[g])
                      /\ ToSet(sec'[g]) = ToSet(sec[g]) \cup IF ~p /\ g = f THEN {l} ELSE {}
    OBVIOUS
  <2>1. CASE p /\ g = f
    <3>1. prim'[g] = <<l>> \o prim[g] /\ sec' = sec
      BY <2>1 DEF Register, IInv, TypeOK
    <3> QED
      BY <1>2, <2>1, <3>1, HeadOk
  <2>2. CASE ~p /\ g = f
    <3>1. sec'[g] = <<l>> \o sec[g] /\ prim' = prim
      BY <2>2 DEF Register, IInv, TypeOK
    <3> QED
      BY <1>2, <2>2, <3>1, HeadOk
  <2>3. CASE g # f
    <3>1. prim'[g] = prim[g] /\ sec'[g] = sec[g]
      BY <2>3 DEF Register, IInv, TypeOK
    <3> QED
      BY <1>2, <2>3, <3>1
  <2> QED
    BY <2>1, <2>2, <2>3
<1>5. DOMAIN prim' = File /\ DOMAIN sec' = File
  BY DEF Register, IInv, TypeOK
<1>6. /\ prim' = [g \in File |-> prim'[g]] /\ sec' = [g \in File |-> sec'[g]]
  <2>1. CASE p
    BY <1>5, <2>1 DEF Register, IInv, TypeOK
  <2>2. CASE ~p
    BY <1>5, <2>2 DEF Register, IInv, TypeOK
  <2> QED
    BY <2>1, <2>2
<1>7. TypeOK'
  BY <1>3, <1>4, <1>6 DEF IInv, TypeOK
<1>8. ListsAgree'
  <2>1. ASSUME NEW g \in File
        PROVE  /\ ToSet(prim'[g]) = {k \in alloc' : file'[k] = g /\ isprim'[k]}
               /\ ToSet(sec'[g]) = {k \in alloc' : file'[k] = g /\ ~isprim'[k]}
    <3>1. /\ ToSet(prim[g]) = {k \in alloc : file[k] = g /\ isprim[k]}
          /\ ToSet(sec[g]) = {k \in alloc : file[k] = g /\ ~isprim[k]}
      BY DEF IInv, ListsAgree
    <3>2. \A k \in alloc : k # l /\ k \in Loc /\ file'[k] = file[k] /\ isprim'[k] = isprim[k]
      BY <1>1, <1>3 DEF IInv, TypeOK
    <3>3. file'[l] = f /\ isprim'[l] = p
      BY <1>3 DEF IInv, TypeOK
    <3>4. /\ ToSet(prim'[g]) = ToSet(prim[g]) \cup IF p /\ g = f THEN {l} ELSE {}
          /\ ToSet(sec'[g]) = ToSet(sec[g]) \cup IF ~p /\ g = f THEN {l} ELSE {}
      BY <1>4
    <3>5. alloc' = alloc \cup {l}
      BY <1>3
    <3>6. CASE p
      <4>1. isprim'[l]
        BY <3>3, <3>6
      <4>2. ToSet(prim'[g]) = ToSet(prim[g]) \cup {k \in {l} : g = f} /\ ToSet(sec'[g]) = ToSet(sec[g])
        BY <3>4, <3>6
      <4> QED
        BY <3>1, <3>2, <3>3, <3>5, <4>1, <4>2
    <3>7. CASE ~p
      <4>1. ~isprim'[l]
        BY <3>3, <3>7
      <4>2. ToSet(sec'[g]) = ToSet(sec[g]) \cup {k \in {l} : g = f} /\ ToSet(prim'[g]) = ToSet(prim[g])
        BY <3>4, <3>7
      <4> QED
        BY <3>1, <3>2, <3>3, <3>5, <4>1, <4>2
    <3> QED
      BY <3>6, <3>7
  <2>2. ASSUME NEW k \in Loc \ alloc' PROVE file'[k] = NoFile
    BY <1>3, <2>2 DEF IInv, TypeOK, ListsAgree
  <2> QED
    BY <1>4, <2>1, <2>2 DEF ListsAgree
<1>9. NothingDangles'
  BY <1>1, <1>3 DEF IInv, TypeOK, NothingDangles
<1>10. TreesApart'
  BY <1>1, <1>3 DEF IInv, TypeOK, TreesApart
<1> QED
  BY <1>7, <1>8, <1>9, <1>10 DEF IInv

\* The locators of S are cleared and taken out of all lists, and those that
\* stay registered keep their files and Handles.
LEMMA ClearInv ==
    ASSUME IInv, NEW S \in SUBSET Loc, ClearLocators(S),
           alloc' \subseteq alloc, alloc \ alloc' \subseteq S,
           prim' \in [File -> Seq(Loc)], sec' \in [File -> Seq(Loc)],
           \A g \in File :
              /\ ToSet(prim'[g]) = ToSet(prim[g]) \ S /\ IsInjective(prim'[g])
              /\ ToSet(sec'[g]) = ToSet(sec[g]) \ S /\ IsInjective(sec'[g]),
           known' \subseteq File, open' \subseteq File, onDisk' \subseteq File,
           trees' \subseteq Tree, flagged' \subseteq HandleSet,
           \A k \in alloc \ S : file[k] # NoFile => file[k] \in open' /\ at[k].tree \in trees'
    PROVE  IInv'
<1>1. /\ file' = [k \in Loc |-> IF k \in S THEN NoFile ELSE file[k]]
      /\ isprim' = [k \in Loc |-> isprim[k] /\ k \notin S]
      /\ at' = [k \in Loc |-> IF k \in S THEN Nowhere ELSE at[k]]
  BY DEF ClearLocators
<1>2. alloc \subseteq Loc
  BY DEF IInv, TypeOK
<1>3. TypeOK'
  BY <1>1, <1>2 DEF IInv, TypeOK
<1>4. ListsAgree'
  <2>1. ASSUME NEW g \in File
        PROVE  /\ ToSet(prim'[g]) = {k \in alloc' : file'[k] = g /\ isprim'[k]}
               /\ ToSet(sec'[g]) = {k \in alloc' : file'[k] = g /\ ~isprim'[k]}
    <3>1. /\ ToSet(prim[g]) = {k \in alloc : file[k] = g /\ isprim[k]}
          /\ ToSet(sec[g]) = {k \in alloc : file[k] = g /\ ~isprim[k]}
      BY DEF IInv, ListsAgree
    <3>2. \A k \in alloc : k \notin S => k \in alloc' /\ file'[k] = file[k] /\ (isprim'[k] <=> isprim[k])
      BY <1>1, <1>2
    <3>3. \A k \in alloc : k \in S => file'[k] = NoFile
      BY <1>1, <1>2
    <3>4. g # NoFile
      BY RegistryAssumption
    <3>5. /\ ToSet(prim'[g]) = ToSet(prim[g]) \ S
          /\ ToSet(sec'[g]) = ToSet(sec[g]) \ S
      OBVIOUS
    <3> QED
      BY <3>1, <3>2, <3>3, <3>4, <3>5
  <2>2. ASSUME NEW k \in Loc \ alloc' PROVE file'[k] = NoFile
    BY <1>1, <2>2 DEF IInv, ListsAgree
  <2> QED
    BY <2>1, <2>2 DEF ListsAgree
<1>5. NothingDangles'
  BY <1>1, <1>2 DEF NothingDangles
<1>6. TreesApart'
  BY <1>1, <1>2 DEF IInv, TreesApart
<1> QED
  BY <1>3, <1>4, <1>5, <1>6 DEF IInv

\* A registered locator is moved from one list of its file to the other.
LEMMA MoveInv ==
    ASSUME IInv, NEW l \in alloc, file[l] # NoFile, NEW p \in BOOLEAN, isprim[l] # p,
           isprim' = [isprim EXCEPT ![l] = p],
           prim' = [prim EXCEPT ![file[l]] = IF p THEN <<l>> \o @ ELSE Without(@, l)],
           sec' = [sec EXCEPT ![file[l]] = IF p THEN Without(@, l) ELSE <<l>> \o @],
           UNCHANGED <<alloc, file, at, known, open, onDisk, trees, flagged>>
    PROVE  IInv'
<1> DEFINE f == file[l]
<1>1. /\ f \in File /\ l \in Loc
      /\ isprim \in [Loc -> BOOLEAN]
      /\ prim \in [File -> Seq(Loc)] /\ sec \in [File -> Seq(Loc)]
  BY DEF IInv, TypeOK
<1>2. \A g \in File :
        /\ ToSet(prim[g]) = {k \in alloc : file[k] = g /\ isprim[k]}
        /\ ToSet(sec[g]) = {k \in alloc : file[k] = g /\ ~isprim[k]}
        /\ IsInjective(prim[g]) /\ IsInjective(sec[g])
  BY DEF IInv, ListsAgree
<1>3. \A g \in File : g # f => prim'[g] = prim[g] /\ sec'[g] = sec[g]
  BY <1>1
<1>4. /\ \A k \in Loc : k # l => (isprim'[k] <=> isprim[k])
      /\ isprim[l] <=> ~p
      /\ isprim'[l] <=> p
      /\ isprim' \in [Loc -> BOOLEAN]
      /\ alloc \subseteq Loc
  BY <1>1 DEF IInv, TypeOK
<1>5. /\ prim'[f] \in Seq(Loc) /\ IsInjective(prim'[f])
      /\ ToSet(prim'[f]) = IF p THEN {l} \cup ToSet(prim[f]) ELSE ToSet(prim[f]) \ {l}
      /\ sec'[f] \in Seq(Loc) /\ IsInjective(sec'[f])
      /\ ToSet(sec'[f]) = IF p THEN ToSet(sec[f]) \ {l} ELSE {l} \cup ToSet(sec[f])
  <2>1. CASE p
    <3>1. prim'[f] = <<l>> \o prim[f] /\ sec'[f] = Without(sec[f], l)
      BY <1>1, <2>1
    <3>2. l \notin ToSet(prim[f])
      BY <1>1, <1>2, <1>4, <2>1
    <3>3. /\ prim'[f] \in Seq(Loc) /\ IsInjective(prim'[f])
          /\ ToSet(prim'[f]) = {l} \cup ToSet(prim[f])
      BY <1>1, <1>2, <3>1, <3>2, HeadOk
    <3>4. sec[f] \in Seq(Loc) /\ IsInjective(sec[f])
      BY <1>1, <1>2
    <3>5. /\ Without(sec[f], l) \in Seq(Loc) /\ IsInjective(Without(sec[f], l))
          /\ ToSet(Without(sec[f], l)) = ToSet(sec[f]) \ {l}
      <4> HIDE DEF f
      <4> QED
        BY <3>4, WithoutOk, Zenon
    <3>6. /\ sec'[f] \in Seq(Loc) /\ IsInjective(sec'[f])
          /\ ToSet(sec'[f]) = ToSet(sec[f]) \ {l}
      BY <3>1, <3>5
    <3> QED
      BY <2>1, <3>3, <3>6
  <2>2. CASE ~p
    <3>1. sec'[f] = <<l>> \o sec[f] /\ prim'[f] = Without(prim[f], l)
      BY <1>1, <2>2
    <3>2. l \notin ToSet(sec[f])
      BY <1>1, <1>2, <1>4, <2>2
    <3>3. /\ sec'[f] \in Seq(Loc) /\ IsInjective(sec'[f])
          /\ ToSet(sec'[f]) = {l} \cup ToSet(sec[f])
      BY <1>1, <1>2, <3>1, <3>2, HeadOk
    <3>4. prim[f] \in Seq(Loc) /\ IsInjective(prim[f])
      BY <1>1, <1>2
    <3>5. /\ Without(prim[f], l) \in Seq(Loc) /\ IsInjective(Without(prim[f], l))
          /\ ToSet(Without(prim[f], l)) = ToSet(prim[f]) \ {l}
      <4> HIDE DEF f
      <4> QED
        BY <3>4, WithoutOk, Zenon
    <3>6. /\ prim'[f] \in Seq(Loc) /\ IsInjective(prim'[f])
          /\ ToSet(prim'[f]) = ToSet(prim[f]) \ {l}
      BY <3>1, <3>5
    <3> QED
      BY <2>2, <3>3, <3>6
  <2> QED
    BY <2>1, <2>2
<1>6. TypeOK'
  <2>1. prim' \in [File -> Seq(Loc)] /\ sec' \in [File -> Seq(Loc)]
    <3> HIDE DEF f
    <3>1. \A g \in File : prim'[g] \in Seq(Loc) /\ sec'[g] \in Seq(Loc)
      BY <1>1, <1>3, <1>5
    <3>2. prim' = [g \in File |-> prim'[g]] /\ sec' = [g \in File |-> sec'[g]]
      BY <1>1
    <3> QED
      BY <3>1, <3>2
  <2> QED
    BY <1>4, <2>1 DEF IInv, TypeOK
<1>7. ListsAgree'
  <2>1. ASSUME NEW g \in File
        PROVE  /\ ToSet(prim'[g]) = {k \in alloc : file[k] = g /\ isprim'[k]}
               /\ ToSet(sec'[g]) = {k \in alloc : file[k] = g /\ ~isprim'[k]}
               /\ IsInjective(prim'[g]) /\ IsInjective(sec'[g])
    <3>1. CASE g # f
      BY <1>2, <1>3, <1>4, <3>1
    <3>2. CASE g = f
      <4>1. /\ ToSet(prim[f]) = {k \in alloc : file[k] = f /\ isprim[k]}
            /\ ToSet(sec[f]) = {k \in alloc : file[k] = f /\ ~isprim[k]}
        BY <1>1, <1>2
      <4> HIDE DEF f
      <4>2. file[l] = f
        BY DEF f
      <4>3. CASE p
        BY <1>4, <1>5, <3>2, <4>1, <4>2, <4>3
      <4>4. CASE ~p
        BY <1>4, <1>5, <3>2, <4>1, <4>2, <4>4
      <4> QED
        BY <4>3, <4>4
    <3> QED
      BY <3>1, <3>2
  <2>2. \A k \in Loc \ alloc : file[k] = NoFile
    BY DEF IInv, ListsAgree
  <2> QED
    BY <2>1, <2>2 DEF ListsAgree
<1>8. NothingDangles' /\ TreesApart'
  BY DEF IInv, NothingDangles, TreesApart
<1> QED
  BY <1>6, <1>7, <1>8 DEF IInv

\* dat1Annul of the last primary locator, and the end of datAnnul or hdsErase.
LEMMA CloseFileInv ==
    ASSUME IInv, NEW l \in alloc, Registered(l), LastPrimary(l),
           NEW flags \in SUBSET HandleSet, CloseFile(l, flags),
           alloc' = alloc \ {l}
    PROVE  IInv'
<1> DEFINE f == file[l]
           S == Cascade(l)
<1>1. /\ f \in File /\ l \in Loc /\ alloc \subseteq Loc
      /\ prim \in [File -> Seq(Loc)] /\ sec \in [File -> Seq(Loc)]
  BY DEF IInv, TypeOK, Registered
<1>2. \A g \in File :
        /\ ToSet(prim[g]) = {k \in alloc : file[k] = g /\ isprim[k]}
        /\ ToSet(sec[g]) = {k \in alloc : file[k] = g /\ ~isprim[k]}
        /\ IsInjective(prim[g]) /\ IsInjective(sec[g])
  BY DEF IInv, ListsAgree
<1>3. ToSet(prim[f]) = {l}
  BY DEF LastPrimary, ToSet
<1>4. S = {k \in alloc : file[k] = f}
  BY <1>1, <1>2, <1>3 DEF Cascade
<1>5. /\ prim' = [prim EXCEPT ![f] = <<>>] /\ sec' = [sec EXCEPT ![f] = <<>>]
      /\ ClearLocators(S)
      /\ known' = known \ {f} /\ open' = open \ {f}
      /\ onDisk' \subseteq onDisk
      /\ trees' = trees \ {at[l].tree}
      /\ flagged' \subseteq flags
  BY DEF CloseFile
<1>6. \A g \in File :
        /\ ToSet(prim'[g]) = ToSet(prim[g]) \ S /\ IsInjective(prim'[g])
        /\ ToSet(sec'[g]) = ToSet(sec[g]) \ S /\ IsInjective(sec'[g])
  <2> SUFFICES ASSUME NEW g \in File
               PROVE  /\ ToSet(prim'[g]) = ToSet(prim[g]) \ S /\ IsInjective(prim'[g])
                      /\ ToSet(sec'[g]) = ToSet(sec[g]) \ S /\ IsInjective(sec'[g])
    OBVIOUS
  <2>1. CASE g = f
    <3>1. ToSet(prim[g]) \subseteq S /\ ToSet(sec[g]) \subseteq S
      BY <1>1, <1>2, <1>4, <2>1
    <3>2. prim'[g] = <<>> /\ sec'[g] = <<>>
      BY <1>1, <1>5, <2>1
    <3>3. ToSet(<<>>) = {} /\ IsInjective(<<>>)
      BY DEF ToSet, IsInjective
    <3> QED
      BY <3>1, <3>2, <3>3
  <2>2. CASE g # f
    <3>1. ToSet(prim[g]) \cap S = {} /\ ToSet(sec[g]) \cap S = {}
      BY <1>2, <1>4, <2>2
    <3>2. prim'[g] = prim[g] /\ sec'[g] = sec[g]
      BY <1>1, <1>5, <2>2
    <3> QED
      BY <1>2, <3>1, <3>2
  <2> QED
    BY <2>1, <2>2
<1>7. \A k \in alloc \ S : file[k] # NoFile => file[k] \in open' /\ at[k].tree \in trees'
  BY <1>4, <1>5 DEF IInv, NothingDangles, TreesApart, Registered
<1>8. prim' \in [File -> Seq(Loc)] /\ sec' \in [File -> Seq(Loc)]
  BY <1>1, <1>5
<1>9. S \in SUBSET Loc /\ l \in S
  BY <1>1, <1>4
<1>10. /\ known' \subseteq File /\ open' \subseteq File /\ onDisk' \subseteq File
       /\ trees' \subseteq Tree /\ flagged' \subseteq HandleSet
  BY <1>5 DEF IInv, TypeOK
<1> HIDE DEF S, f
<1> QED
  BY <1>5, <1>6, <1>7, <1>8, <1>9, <1>10, ClearInv

\* A registered locator l leaves its list and is cleared; the file stays open.
LEMMA UnregisterInv ==
    ASSUME IInv, NEW l \in alloc, Registered(l), ClearLocators({l}),
           alloc' \in {alloc, alloc \ {l}},
           prim' = [prim EXCEPT ![file[l]] = Without(@, l)],
           sec' = [sec EXCEPT ![file[l]] = Without(@, l)],
           UNCHANGED <<known, open, onDisk, trees>>, flagged' \subseteq HandleSet
    PROVE  IInv'
<1> DEFINE f == file[l]
<1>1. /\ f \in File /\ l \in Loc
      /\ prim \in [File -> Seq(Loc)] /\ sec \in [File -> Seq(Loc)]
  BY DEF IInv, TypeOK, Registered
<1>2. \A g \in File :
        /\ ToSet(prim[g]) = {k \in alloc : file[k] = g /\ isprim[k]}
        /\ ToSet(sec[g]) = {k \in alloc : file[k] = g /\ ~isprim[k]}
        /\ IsInjective(prim[g]) /\ IsInjective(sec[g])
  BY DEF IInv, ListsAgree
<1>3. \A g \in File :
        /\ prim'[g] \in Seq(Loc) /\ sec'[g] \in Seq(Loc)
        /\ ToSet(prim'[g]) = ToSet(prim[g]) \ {l} /\ IsInjective(prim'[g])
        /\ ToSet(sec'[g]) = ToSet(sec[g]) \ {l} /\ IsInjective(sec'[g])
  <2> SUFFICES ASSUME NEW g \in File
               PROVE  /\ prim'[g] \in Seq(Loc) /\ sec'[g] \in Seq(Loc)
                      /\ ToSet(prim'[g]) = ToSet(prim[g]) \ {l} /\ IsInjective(prim'[g])
                      /\ ToSet(sec'[g]) = ToSet(sec[g]) \ {l} /\ IsInjective(sec'[g])
    OBVIOUS
  <2>1. CASE g = f
    <3>1. prim'[g] = Without(prim[g], l) /\ sec'[g] = Without(sec[g], l)
      BY <1>1, <2>1
    <3>2. prim[g] \in Seq(Loc) /\ sec[g] \in Seq(Loc)
      BY <1>1
    <3>3. /\ Without(prim[g], l) \in Seq(Loc) /\ IsInjective(Without(prim[g], l))
          /\ ToSet(Without(prim[g], l)) = ToSet(prim[g]) \ {l}
      <4>1. IsInjective(prim[g])
        BY <1>2
      <4> QED
        BY <3>2, <4>1, WithoutOk, Zenon
    <3>4. /\ Without(sec[g], l) \in Seq(Loc) /\ IsInjective(Without(sec[g], l))
          /\ ToSet(Without(sec[g], l)) = ToSet(sec[g]) \ {l}
      <4>1. IsInjective(sec[g])
        BY <1>2
      <4> QED
        BY <3>2, <4>1, WithoutOk, Zenon
    <3> QED
      BY <3>1, <3>3, <3>4
  <2>2. CASE g # f
    <3>1. prim'[g] = prim[g] /\ sec'[g] = sec[g]
      BY <1>1, <2>2
    <3>2. l \notin ToSet(prim[g]) /\ l \notin ToSet(sec[g])
      BY <1>2, <2>2
    <3> QED
      BY <1>1, <1>2, <3>1, <3>2
  <2> QED
    BY <2>1, <2>2
<1>4. prim' \in [File -> Seq(Loc)] /\ sec' \in [File -> Seq(Loc)]
  <2>1. prim' = [g \in File |-> prim'[g]] /\ sec' = [g \in File |-> sec'[g]]
    BY <1>1
  <2> QED
    BY <1>3, <2>1
<1>5. \A k \in alloc \ {l} : file[k] # NoFile => file[k] \in open' /\ at[k].tree \in trees'
  BY DEF IInv, NothingDangles
<1>6. /\ known' \subseteq File /\ open' \subseteq File /\ onDisk' \subseteq File
      /\ trees' \subseteq Tree /\ {l} \in SUBSET Loc
      /\ alloc' \subseteq alloc /\ alloc \ alloc' \subseteq {l}
  BY <1>1 DEF IInv, TypeOK
<1> HIDE DEF f
<1> QED
  BY <1>3, <1>4, <1>5, <1>6, ClearInv

\* dat1Annul, whichever way it goes.
LEMMA AnnulInv ==
    ASSUME IInv, NEW l \in alloc, Registered(l), NEW flags \in SUBSET HandleSet,
           Annul(l, flags), alloc' = alloc \ {l}
    PROVE  IInv'
<1>1. CASE LastPrimary(l)
  BY <1>1, CloseFileInv DEF Annul
<1>2. CASE ~LastPrimary(l)
  BY <1>2, UnregisterInv DEF Annul, Unregister
<1> QED
  BY <1>1, <1>2

-----------------------------------------------------------------------------
(* The invariant *)

\* The invariant holds in the beginning: all lists are empty.
LEMMA InitInv == Init => IInv
<1> SUFFICES ASSUME Init PROVE IInv
  OBVIOUS
<1>1. ToSet(<<>>) = {} /\ IsInjective(<<>>)
  BY DEF ToSet, IsInjective
<1>2. TypeOK
  <2>1. <<>> \in Seq(Loc)
    OBVIOUS
  <2> QED
    BY <2>1 DEF Init, TypeOK
<1>3. ListsAgree
  <2>1. \A g \in File : prim[g] = <<>> /\ sec[g] = <<>>
    BY DEF Init
  <2>2. alloc = {} /\ \A l \in Loc : file[l] = NoFile
    BY DEF Init
  <2> QED
    BY <1>1, <2>1, <2>2 DEF ListsAgree
<1>4. NothingDangles /\ TreesApart
  BY DEF Init, NothingDangles, TreesApart
<1> QED
  BY <1>2, <1>3, <1>4 DEF IInv

\* The calls that make a locator.
LEMMA MakeInv ==
    ASSUME IInv, NEW l \in Loc, NEW f \in File,
           HdsNew(l, f) \/ HdsOpen(l, f)
    PROVE  IInv'
<1>1. CASE HdsNew(l, f)
  <2>1. PICK t \in Tree \ trees :
           /\ Register(l, f, [tree |-> t, kind |-> "root"], TRUE)
           /\ trees' = trees \cup {t}
    BY <1>1 DEF HdsNew
  <2>2. /\ known' = known \cup {f} /\ open' = open \cup {f}
        /\ onDisk' = onDisk \cup {f} /\ flagged' = flagged
    BY <1>1 DEF HdsNew
  <2> DEFINE h == [tree |-> t, kind |-> "root"]
  <2>3. h \in HandleSet /\ h.tree = t
    BY DEF HandleSet, Kind
  <2>4. \A k \in alloc : file[k] # NoFile /\ at[k].tree = h.tree => file[k] = f
    BY <2>3 DEF IInv, NothingDangles
  <2>5. /\ known' \subseteq File /\ open' \subseteq File /\ onDisk' \subseteq File
        /\ trees' \subseteq Tree /\ flagged' \subseteq HandleSet
        /\ open \subseteq open' /\ f \in open' /\ trees \subseteq trees' /\ h.tree \in trees'
    BY <2>1, <2>2, <2>3 DEF IInv, TypeOK
  <2> HIDE DEF h
  <2> QED
    BY <2>1, <2>3, <2>4, <2>5, RegisterInv DEF h
<1>2. CASE HdsOpen(l, f)
  <2>1. PICK t \in TreeFor(f) :
           /\ Register(l, f, [tree |-> t, kind |-> "top"], TRUE)
           /\ trees' = trees \cup {t}
    BY <1>2 DEF HdsOpen
  <2>2. /\ known' = known \cup {f} /\ open' = open \cup {f}
        /\ onDisk' = onDisk /\ flagged' = flagged
    BY <1>2 DEF HdsOpen
  <2> DEFINE h == [tree |-> t, kind |-> "top"]
  <2>3. t \in Tree /\ \A k \in alloc : file[k] # NoFile /\ at[k].tree = t => file[k] = f
    <3>1. CASE prim[f] = <<>>
      BY <3>1 DEF TreeFor, IInv, NothingDangles
    <3>2. CASE prim[f] # <<>>
      <4>1. prim[f] \in Seq(Loc) /\ 1 \in DOMAIN prim[f]
        BY <3>2 DEF IInv, TypeOK
      <4>2. prim[f][1] \in ToSet(prim[f])
        BY <4>1 DEF ToSet
      <4>3. prim[f][1] \in alloc /\ file[prim[f][1]] = f
        BY <4>2 DEF IInv, ListsAgree
      <4>4. t = at[prim[f][1]].tree
        BY <3>2 DEF TreeFor
      <4>5. f # NoFile
        BY RegistryAssumption
      <4>6. t \in trees
        BY <4>3, <4>4, <4>5 DEF IInv, NothingDangles
      <4> QED
        BY <4>3, <4>4, <4>5, <4>6 DEF IInv, TreesApart, TypeOK
    <3> QED
      BY <3>1, <3>2
  <2>4. h \in HandleSet /\ h.tree = t
    BY <2>3 DEF HandleSet, Kind
  <2>5. /\ known' \subseteq File /\ open' \subseteq File /\ onDisk' \subseteq File
        /\ trees' \subseteq Tree /\ flagged' \subseteq HandleSet
        /\ open \subseteq open' /\ f \in open' /\ trees \subseteq trees' /\ h.tree \in trees'
    BY <2>1, <2>2, <2>3, <2>4 DEF IInv, TypeOK
  <2> HIDE DEF h
  <2> QED
    BY <2>1, <2>3, <2>4, <2>5, RegisterInv DEF h
<1> QED
  BY <1>1, <1>2

\* The calls that make a locator from another.
LEMMA DeriveInv ==
    ASSUME IInv, NEW k \in Loc, NEW l \in Loc, NEW kind \in Kind,
           Derive(k, l, kind)
    PROVE  IInv'
<1> DEFINE h == [tree |-> at[k].tree, kind |-> kind]
           f == file[k]
<1>1. k \in alloc /\ f # NoFile /\ f \in File /\ at[k].tree \in trees /\ f \in open
  BY DEF Derive, Valid, Registered, IInv, TypeOK, NothingDangles
<1>2. Register(l, f, h, FALSE) /\ UNCHANGED <<known, open, onDisk, trees, flagged>>
  BY DEF Derive
<1>3. h \in HandleSet /\ h.tree = at[k].tree
  BY <1>1 DEF HandleSet, IInv, TypeOK
<1>4. \A j \in alloc : file[j] # NoFile /\ at[j].tree = h.tree => file[j] = f
  BY <1>1, <1>3 DEF IInv, TreesApart
<1>5. /\ known' \subseteq File /\ open' \subseteq File /\ onDisk' \subseteq File
      /\ trees' \subseteq Tree /\ flagged' \subseteq HandleSet
      /\ open \subseteq open' /\ f \in open' /\ trees \subseteq trees' /\ h.tree \in trees'
  BY <1>1, <1>2, <1>3 DEF IInv, TypeOK
<1> HIDE DEF h, f
<1> QED
  BY <1>1, <1>2, <1>3, <1>4, <1>5, RegisterInv

\* datPrmry.
LEMMA DatPrmryInv ==
    ASSUME IInv, NEW l \in Loc,
           Promote(l) \/ Demote(l) \/ DemoteOnly(l) \/ DatPrmryAnnulled(l)
    PROVE  IInv'
<1>1. CASE Promote(l)
  <2>1. isprim[l] # TRUE
    BY <1>1 DEF Promote, Registered, IInv, TypeOK
  <2> QED
    BY <1>1, <2>1, MoveInv DEF Promote, Registered
<1>2. CASE Demote(l)
  <2>1. isprim[l] # FALSE
    BY <1>2 DEF Demote, Registered, IInv, TypeOK
  <2> QED
    BY <1>2, <2>1, MoveInv DEF Demote, Registered
<1>3. CASE DemoteOnly(l)
  <2> DEFINE f == file[l]
  <2>1. l \in alloc /\ Registered(l) /\ f \in File /\ isprim[l] /\ prim[f] = <<l>>
    BY <1>3 DEF DemoteOnly, Registered, IInv, TypeOK, LastPrimary
  <2>2. /\ prim \in [File -> Seq(Loc)] /\ sec \in [File -> Seq(Loc)]
    BY DEF IInv, TypeOK
  <2>3. Without(prim[f], l) = <<>>
    <3>1. prim[f] \in Seq(Loc) /\ IsInjective(prim[f])
      BY <2>1, <2>2 DEF IInv, ListsAgree
    <3>2. /\ Without(prim[f], l) \in Seq(Loc)
          /\ ToSet(Without(prim[f], l)) = ToSet(prim[f]) \ {l}
      BY <3>1, WithoutOk, Zenon
    <3>3. ToSet(prim[f]) = {l}
      BY <2>1 DEF ToSet
    <3> DEFINE w == Without(prim[f], l)
    <3>4. ToSet(w) = {} /\ w \in Seq(Loc)
      BY <3>2, <3>3
    <3> HIDE DEF w
    <3>5. w = <<>>
      <4>1. ASSUME w # <<>> PROVE FALSE
        <5>1. 1 \in DOMAIN w
          BY <3>4, <4>1
        <5>2. w[1] \in ToSet(w)
          BY <5>1 DEF ToSet
        <5> QED
          BY <3>4, <5>2
      <4> QED
        BY <4>1
    <3> QED
      BY <3>5 DEF w
  <2>4. Without(sec[f], l) = sec[f]
    <3>1. l \notin ToSet(sec[f])
      BY <2>1 DEF IInv, ListsAgree
    <3> QED
      BY <3>1 DEF Without
  <2>5. /\ prim' = [prim EXCEPT ![f] = Without(@, l)]
        /\ sec' = [sec EXCEPT ![f] = Without(@, l)]
    <3>1. prim' = [prim EXCEPT ![f] = <<>>] /\ sec' = sec
      BY <1>3 DEF DemoteOnly
    <3> HIDE DEF f
    <3> QED
      BY <2>2, <2>3, <2>4, <3>1
  <2>6. /\ ClearLocators({l}) /\ alloc' = alloc
        /\ UNCHANGED <<known, open, onDisk, trees>> /\ flagged' \subseteq HandleSet
    BY <1>3 DEF DemoteOnly, IInv, TypeOK
  <2> QED
    BY <2>1, <2>5, <2>6, UnregisterInv
<1>4. CASE DatPrmryAnnulled(l)
  <2>1. /\ l \in alloc /\ file[l] = NoFile /\ isprim' \in [Loc -> BOOLEAN]
        /\ \A k \in Loc : k # l => isprim'[k] = isprim[k]
        /\ UNCHANGED <<alloc, file, at, prim, sec, known, open, onDisk, trees, flagged>>
    BY <1>4 DEF DatPrmryAnnulled, IInv, TypeOK
  <2>2. TypeOK'
    BY <2>1 DEF IInv, TypeOK
  <2>3. ListsAgree'
    <3>1. ASSUME NEW g \in File
          PROVE  /\ {k \in alloc : file[k] = g /\ isprim'[k]} = {k \in alloc : file[k] = g /\ isprim[k]}
                 /\ {k \in alloc : file[k] = g /\ ~isprim'[k]} = {k \in alloc : file[k] = g /\ ~isprim[k]}
      <4>1. g # NoFile /\ alloc \subseteq Loc
        BY RegistryAssumption DEF IInv, TypeOK
      <4> QED
        BY <2>1, <4>1
    <3> QED
      BY <2>1, <3>1 DEF IInv, ListsAgree
  <2>4. NothingDangles' /\ TreesApart'
    BY <2>1 DEF IInv, NothingDangles, TreesApart
  <2> QED
    BY <2>2, <2>3, <2>4 DEF IInv
<1> QED
  BY <1>1, <1>2, <1>3, <1>4

\* Every step keeps the invariant.
LEMMA NextInv == IInv /\ [Next]_vars => IInv'
<1> SUFFICES ASSUME IInv, [Next]_vars PROVE IInv'
  OBVIOUS
<1>1. CASE UNCHANGED vars
  BY <1>1 DEF vars, IInv, TypeOK, ListsAgree, NothingDangles, TreesApart
<1>2. ASSUME NEW l \in Loc, DatAnnul(l) PROVE IInv'
  <2>1. l \in alloc /\ alloc' = alloc \ {l} /\ flagged \in SUBSET HandleSet
    BY <1>2 DEF DatAnnul, IInv, TypeOK
  <2>2. CASE Registered(l)
    BY <1>2, <2>1, <2>2, AnnulInv DEF DatAnnul
  <2>3. CASE ~Registered(l)
    <3>1. /\ file[l] = NoFile
          /\ UNCHANGED <<file, isprim, at, prim, sec, known, open, onDisk, trees, flagged>>
      BY <1>2, <2>1, <2>3 DEF DatAnnul, Registered
    <3>2. TypeOK'
      BY <2>1, <3>1 DEF IInv, TypeOK
    <3>3. ListsAgree'
      <4>1. ASSUME NEW g \in File
            PROVE  /\ {k \in alloc' : file[k] = g /\ isprim[k]} = {k \in alloc : file[k] = g /\ isprim[k]}
                   /\ {k \in alloc' : file[k] = g /\ ~isprim[k]} = {k \in alloc : file[k] = g /\ ~isprim[k]}
        <5>1. g # NoFile
          BY RegistryAssumption
        <5> QED
          BY <2>1, <3>1, <5>1
      <4>2. \A k \in Loc \ alloc' : file[k] = NoFile
        BY <2>1, <3>1 DEF IInv, ListsAgree
      <4> QED
        BY <3>1, <4>1, <4>2 DEF IInv, ListsAgree
    <3>4. NothingDangles' /\ TreesApart'
      BY <2>1, <3>1 DEF IInv, NothingDangles, TreesApart
    <3> QED
      BY <3>2, <3>3, <3>4 DEF IInv
  <2> QED
    BY <2>2, <2>3
<1>3. ASSUME NEW l \in Loc, HdsErase(l) PROVE IInv'
  <2>1. l \in alloc /\ Registered(l) /\ alloc' = alloc \ {l} /\ Annul(l, flagged \cup {at[l]})
    BY <1>3 DEF HdsErase, Valid, Registered
  <2>2. flagged \cup {at[l]} \in SUBSET HandleSet
    <3>1. at[l].tree \in trees
      BY <1>3 DEF HdsErase, Valid
    <3>2. at[l] # Nowhere
      BY <3>1, RegistryAssumption DEF Nowhere, IInv, TypeOK
    <3> QED
      BY <3>2 DEF IInv, TypeOK
  <2> QED
    BY <1>3, <2>1, <2>2, AnnulInv
<1>4. ASSUME NEW k \in Loc, NEW l \in Loc,
             DatClone(k, l) \/ DatFind(k, l) \/ DatParen(k, l)
      PROVE  IInv'
  <2>1. \E kind \in Kind : Derive(k, l, kind)
    <3>1. CASE DatClone(k, l)
      <4>1. at[k].tree \in trees
        BY <3>1 DEF DatClone, Derive, Valid
      <4>2. at[k] # Nowhere /\ k \in Loc
        BY <4>1, RegistryAssumption DEF Nowhere, IInv, TypeOK
      <4>3. at[k].kind \in Kind
        BY <4>2 DEF IInv, TypeOK, HandleSet
      <4> QED
        BY <3>1, <4>3 DEF DatClone
    <3>2. CASE DatFind(k, l)
      BY <3>2 DEF DatFind, Kind
    <3>3. CASE DatParen(k, l)
      BY <3>3 DEF DatParen, Kind
    <3> QED
      BY <1>4, <3>1, <3>2, <3>3
  <2> QED
    BY <1>4, <2>1, DeriveInv
<1> QED
  BY <1>1, <1>2, <1>3, <1>4, MakeInv, DatPrmryInv DEF Next

\* The fields of the registry keep their types.
THEOREM RegistryTypeCorrect == Spec => []TypeOK
<1>1. IInv => TypeOK
  BY DEF IInv
<1> QED
  BY <1>1, InitInv, NextInv, PTL DEF Spec

\* Whatever is called, in whatever order, the lists of primary and secondary
\* locators hold exactly the locators that say they are in them.
THEOREM ListsCorrect == Spec => []ListsAgree
<1>1. IInv => ListsAgree
  BY DEF IInv
<1> QED
  BY <1>1, InitInv, NextInv, PTL DEF Spec

\* No locator survives the closing of its file as a registered one.
THEOREM NoLocatorDangles == Spec => []NothingDangles
<1>1. IInv => NothingDangles
  BY DEF IInv
<1> QED
  BY <1>1, InitInv, NextInv, PTL DEF Spec

\* The hash table has exactly the files that HDF5 has open.
LEMMA KnownFilesAreOpen == Spec => []KnownIsOpen
<1>1. Init => KnownIsOpen
  BY DEF Init, KnownIsOpen
<1>2. KnownIsOpen /\ [Next]_vars => KnownIsOpen'
  <2> SUFFICES ASSUME KnownIsOpen, [Next]_vars PROVE KnownIsOpen'
    OBVIOUS
  <2>1. CASE UNCHANGED <<known, open>>
    BY <2>1 DEF KnownIsOpen
  <2>2. CASE \E f \in File : known' = known \cup {f} /\ open' = open \cup {f}
    BY <2>2 DEF KnownIsOpen
  <2>3. CASE \E f : known' = known \ {f} /\ open' = open \ {f}
    BY <2>3 DEF KnownIsOpen
  <2>4. ASSUME NEW l \in Loc, NEW flags, Annul(l, flags)
        PROVE  UNCHANGED <<known, open>> \/ \E f : known' = known \ {f} /\ open' = open \ {f}
    BY <2>4 DEF Annul, CloseFile, Unregister
  <2>5. CASE UNCHANGED vars
    BY <2>1, <2>5 DEF vars
  <2>6. CASE \E l \in Loc : DatAnnul(l) \/ HdsErase(l)
    BY <2>1, <2>3, <2>4, <2>6 DEF DatAnnul, HdsErase
  <2>7. CASE \E l \in Loc, f \in File : HdsNew(l, f) \/ HdsOpen(l, f)
    BY <2>2, <2>7 DEF HdsNew, HdsOpen
  <2>8. CASE \E k, l \in Loc : DatClone(k, l) \/ DatFind(k, l) \/ DatParen(k, l)
    BY <2>1, <2>8 DEF DatClone, DatFind, DatParen, Derive
  <2>9. CASE \E l \in Loc : Promote(l) \/ Demote(l) \/ DemoteOnly(l) \/ DatPrmryAnnulled(l)
    BY <2>1, <2>9 DEF Promote, Demote, DemoteOnly, DatPrmryAnnulled
  <2> QED
    BY <2>5, <2>6, <2>7, <2>8, <2>9 DEF Next
<1> QED
  BY <1>1, <1>2, PTL DEF Spec

-----------------------------------------------------------------------------
(* Files and their owners, for the files whose last primary locator is never *)
(* demoted                                                                 *)

\* A list that holds l alone, once.
LEMMA OnlyOne ==
    ASSUME NEW S, NEW s \in Seq(S), IsInjective(s), NEW l, ToSet(s) = {l}
    PROVE  s = <<l>>
<1>1. Len(s) \in Nat /\ DOMAIN s = 1..Len(s) /\ \A i \in 1..Len(s) : s[i] = l
  BY DEF ToSet
<1>2. Len(s) # 0
  BY DEF ToSet
<1>3. ASSUME Len(s) > 1 PROVE FALSE
  <2>1. 1 \in 1..Len(s) /\ 2 \in 1..Len(s)
    BY <1>1, <1>3
  <2>2. s[1] = s[2]
    BY <1>1, <2>1
  <2> QED
    BY <1>1, <2>1, <2>2 DEF IsInjective
<1>4. Len(s) = 1
  BY <1>1, <1>2, <1>3
<1> QED
  BY <1>1, <1>4

\* Whether a locator is the last primary one can be told from the set of them.
LEMMA LastPrimarySet ==
    ASSUME IInv, NEW l \in alloc, file[l] \in File
    PROVE  LastPrimary(l) <=> ToSet(prim[file[l]]) = {l}
<1>1. prim[file[l]] \in Seq(Loc) /\ IsInjective(prim[file[l]])
  BY DEF IInv, TypeOK, ListsAgree
<1>2. ToSet(<<l>>) = {l}
  BY DEF ToSet
<1>3. ToSet(prim[file[l]]) = {l} => prim[file[l]] = <<l>>
  BY <1>1, OnlyOne
<1> QED
  BY <1>2, <1>3 DEF LastPrimary

Owners(f) == {l \in alloc : file[l] = f /\ isprim[l]}
Guests(f) == {l \in alloc : file[l] = f /\ ~isprim[l]}

\* The files whose last primary locator is never demoted.
LEMMA KeptFiles == Kept \subseteq File /\ NoFile \notin Kept
  BY RegistryAssumption DEF Kept

\* The sets of locators in the lists.
LEMMA ListSets ==
    ASSUME ListsAgree
    PROVE  /\ [f \in Kept |-> ToSet(prim[f])] = [f \in Kept |-> Owners(f)]
           /\ [f \in Kept |-> ToSet(sec[f])] = [f \in Kept |-> Guests(f)]
  BY KeptFiles DEF ListsAgree, Owners, Guests

\* A list that holds nothing.
LEMMA EmptyList ==
    ASSUME NEW S, NEW s \in Seq(S)
    PROVE  ToSet(s) = {} <=> s = <<>>
<1>1. ToSet(<<>>) = {}
  BY DEF ToSet
<1>2. ASSUME s # <<>> PROVE ToSet(s) # {}
  <2>1. 1 \in DOMAIN s
    BY <1>2
  <2> QED
    BY <2>1 DEF ToSet
<1> QED
  BY <1>1, <1>2

\* The same of the next state.
LEMMA ListSetsNext ==
    ASSUME ListsAgree'
    PROVE  /\ [f \in Kept |-> ToSet(prim'[f])] = [f \in Kept |-> Owners(f)']
           /\ [f \in Kept |-> ToSet(sec'[f])] = [f \in Kept |-> Guests(f)']
  BY KeptFiles DEF ListsAgree, Owners, Guests

\* A new locator comes to own the file, or is its guest.
LEMMA RegisterRefines ==
    ASSUME IInv, IInv', NEW l \in Loc, NEW f \in Kept, NEW h \in HandleSet, NEW p \in BOOLEAN,
           Register(l, f, h, p),
           open' = IF p THEN open \cup {f} ELSE open, p \/ f \in open
    PROVE  Owned!Open(f, l) \/ Owned!Join(f, l)
<1> DEFINE O == [g \in Kept |-> ToSet(prim[g])]
           G == [g \in Kept |-> ToSet(sec[g])]
<1>1. /\ O = [g \in Kept |-> Owners(g)] /\ G = [g \in Kept |-> Guests(g)]
      /\ O' = [g \in Kept |-> Owners(g)'] /\ G' = [g \in Kept |-> Guests(g)']
  BY ListSets, ListSetsNext DEF IInv
<1>2. /\ l \notin alloc /\ alloc' = alloc \cup {l} /\ alloc \subseteq Loc
      /\ file' = [file EXCEPT ![l] = f] /\ isprim' = [isprim EXCEPT ![l] = p]
      /\ file \in [Loc -> File \cup {NoFile}] /\ isprim \in [Loc -> BOOLEAN]
  BY DEF Register, IInv, TypeOK
<1>3. l \notin Owned!InUse
  BY <1>1, <1>2 DEF Owned!InUse, Owned!Users, Owners, Guests
<1>4. \A g \in Kept :
        /\ Owners(g)' = Owners(g) \cup {k \in {l} : g = f /\ p}
        /\ Guests(g)' = Guests(g) \cup {k \in {l} : g = f /\ ~p}
  BY <1>2 DEF Owners, Guests
<1>7. /\ p => open' \cap Kept = (open \cap Kept) \cup {f}
      /\ ~p => open' \cap Kept = open \cap Kept /\ f \in open \cap Kept
  OBVIOUS
<1>5. CASE p
  <2>1. O' = [O EXCEPT ![f] = @ \cup {l}] /\ G' = G
    <3>1. \A g \in Kept : Owners(g)' = IF g = f THEN Owners(g) \cup {l} ELSE Owners(g)
      BY <1>4, <1>5
    <3>2. \A g \in Kept : Guests(g)' = Guests(g)
      BY <1>4, <1>5
    <3>3. [g \in Kept |-> Owners(g)'] = [[g \in Kept |-> Owners(g)] EXCEPT ![f] = @ \cup {l}]
      BY <3>1
    <3>4. [g \in Kept |-> Guests(g)'] = [g \in Kept |-> Guests(g)]
      BY <3>2
    <3> QED
      BY <1>1, <3>3, <3>4
  <2> QED
    BY <1>3, <1>5, <1>7, <2>1 DEF Owned!Open
<1>6. CASE ~p
  <2>1. G' = [G EXCEPT ![f] = @ \cup {l}] /\ O' = O
    <3>1. \A g \in Kept : Guests(g)' = IF g = f THEN Guests(g) \cup {l} ELSE Guests(g)
      BY <1>4, <1>6
    <3>2. \A g \in Kept : Owners(g)' = Owners(g)
      BY <1>4, <1>6
    <3>3. [g \in Kept |-> Guests(g)'] = [[g \in Kept |-> Guests(g)] EXCEPT ![f] = @ \cup {l}]
      BY <3>1
    <3>4. [g \in Kept |-> Owners(g)'] = [g \in Kept |-> Owners(g)]
      BY <3>2
    <3> QED
      BY <1>1, <3>3, <3>4
  <2> QED
    BY <1>3, <1>6, <1>7, <2>1 DEF Owned!Join
<1> QED
  BY <1>5, <1>6

\* dat1Annul of a registered locator: it leaves, or the file is closed.
LEMMA AnnulRefines ==
    ASSUME IInv, IInv', NEW l \in alloc, NEW f \in Kept, file[l] = f, NEW flags,
           Annul(l, flags), alloc' = alloc \ {l}
    PROVE  Owned!Close(f, l) \/ Owned!Leave(f, l)
<1> DEFINE O == [g \in Kept |-> ToSet(prim[g])]
           G == [g \in Kept |-> ToSet(sec[g])]
<1>1. /\ O = [g \in Kept |-> Owners(g)] /\ G = [g \in Kept |-> Guests(g)]
      /\ O' = [g \in Kept |-> Owners(g)'] /\ G' = [g \in Kept |-> Guests(g)']
  BY ListSets, ListSetsNext DEF IInv
<1>2. f \in File /\ l \in Loc /\ alloc \subseteq Loc /\ f # NoFile
  BY KeptFiles DEF IInv, TypeOK
<1>3. LastPrimary(l) <=> O[f] = {l}
  BY <1>2, LastPrimarySet
<1>4. l \in Owned!Users(f)
  BY <1>1, <1>2 DEF Owned!Users, Owners, Guests
<1>5. CASE LastPrimary(l)
  <2>1. ClearLocators(Cascade(l)) /\ open' = open \ {f}
    BY <1>5 DEF Annul, CloseFile
  <2>2. Cascade(l) = {l} \cup Guests(f)
    BY <1>2 DEF Cascade, IInv, ListsAgree, Guests
  <2>3. Owners(f) = {l}
    BY <1>1, <1>2, <1>3, <1>5
  <2>4. Cascade(l) = {k \in alloc : file[k] = f}
    BY <2>2, <2>3 DEF Owners, Guests
  <2>5. \A k \in Loc :
          /\ file'[k] = IF k \in Cascade(l) THEN NoFile ELSE file[k]
          /\ k \notin Cascade(l) => (isprim'[k] <=> isprim[k])
    BY <2>1 DEF ClearLocators
  <2>6. \A g \in Kept : g # NoFile
    BY KeptFiles
  <2>7. \A g \in Kept : g # f => Owners(g)' = Owners(g) /\ Guests(g)' = Guests(g)
    BY <1>2, <2>4, <2>5, <2>6 DEF Owners, Guests
  <2>8. Owners(f)' = {} /\ Guests(f)' = {}
    <3>1. \A k \in alloc : file'[k] # f
      BY <1>2, <2>4, <2>5
    <3> QED
      BY <3>1 DEF Owners, Guests
  <2>9. O' = [O EXCEPT ![f] = {}] /\ G' = [G EXCEPT ![f] = {}]
    <3>1. \A g \in Kept : /\ Owners(g)' = IF g = f THEN {} ELSE Owners(g)
                          /\ Guests(g)' = IF g = f THEN {} ELSE Guests(g)
      BY <2>7, <2>8
    <3>2. [g \in Kept |-> Owners(g)'] = [[g \in Kept |-> Owners(g)] EXCEPT ![f] = {}]
      BY <3>1
    <3>3. [g \in Kept |-> Guests(g)'] = [[g \in Kept |-> Guests(g)] EXCEPT ![f] = {}]
      BY <3>1
    <3> QED
      BY <1>1, <3>2, <3>3
  <2> QED
    <3>1. open' \cap Kept = (open \cap Kept) \ {f}
      BY <2>1
    <3> QED
      BY <1>3, <1>5, <2>9, <3>1 DEF Owned!Close
<1>6. CASE ~LastPrimary(l)
  <2>1. ClearLocators({l}) /\ open' = open
    BY <1>6 DEF Annul, Unregister
  <2>2. \A k \in Loc :
          /\ file'[k] = IF k = l THEN NoFile ELSE file[k]
          /\ k # l => (isprim'[k] <=> isprim[k])
    BY <2>1 DEF ClearLocators
  <2>3. \A g \in Kept : Owners(g)' = Owners(g) \ {l} /\ Guests(g)' = Guests(g) \ {l}
    BY <1>2, <2>2, KeptFiles DEF Owners, Guests
  <2>4. \A g \in Kept : g # f => l \notin Owners(g) /\ l \notin Guests(g)
    BY DEF Owners, Guests
  <2>5. O' = [O EXCEPT ![f] = @ \ {l}] /\ G' = [G EXCEPT ![f] = @ \ {l}]
    <3>1. \A g \in Kept : /\ Owners(g)' = IF g = f THEN Owners(g) \ {l} ELSE Owners(g)
                          /\ Guests(g)' = IF g = f THEN Guests(g) \ {l} ELSE Guests(g)
      <4> SUFFICES ASSUME NEW g \in Kept
                   PROVE  /\ Owners(g)' = IF g = f THEN Owners(g) \ {l} ELSE Owners(g)
                          /\ Guests(g)' = IF g = f THEN Guests(g) \ {l} ELSE Guests(g)
        OBVIOUS
      <4>1. Owners(g)' = Owners(g) \ {l} /\ Guests(g)' = Guests(g) \ {l}
        BY <2>3
      <4>2. g # f => l \notin Owners(g) /\ l \notin Guests(g)
        BY <2>4
      <4> QED
        BY <4>1, <4>2
    <3>2. [g \in Kept |-> Owners(g)'] = [[g \in Kept |-> Owners(g)] EXCEPT ![f] = @ \ {l}]
      BY <3>1
    <3>3. [g \in Kept |-> Guests(g)'] = [[g \in Kept |-> Guests(g)] EXCEPT ![f] = @ \ {l}]
      BY <3>1
    <3> QED
      BY <1>1, <3>2, <3>3
  <2> QED
    BY <1>3, <1>4, <1>6, <2>1, <2>5 DEF Owned!Leave
<1> QED
  BY <1>5, <1>6

\* datPrmry: an owner becomes a guest or a guest an owner.
LEMMA MoveRefines ==
    ASSUME IInv, IInv', NEW l \in alloc, NEW f \in Kept, file[l] = f, NEW p \in BOOLEAN,
           isprim[l] # p, ~p => ~LastPrimary(l),
           isprim' = [isprim EXCEPT ![l] = p], UNCHANGED <<alloc, file, open>>
    PROVE  Owned!Promote(f, l) \/ Owned!Demote(f, l)
<1> DEFINE O == [g \in Kept |-> ToSet(prim[g])]
           G == [g \in Kept |-> ToSet(sec[g])]
<1>1. /\ O = [g \in Kept |-> Owners(g)] /\ G = [g \in Kept |-> Guests(g)]
      /\ O' = [g \in Kept |-> Owners(g)'] /\ G' = [g \in Kept |-> Guests(g)']
  BY ListSets, ListSetsNext DEF IInv
<1>2. LastPrimary(l) <=> O[f] = {l}
  BY LastPrimarySet, KeptFiles
<1>3. /\ \A k \in alloc : k # l => (isprim'[k] <=> isprim[k])
      /\ isprim'[l] <=> p
      /\ isprim[l] <=> ~p
  BY DEF IInv, TypeOK
<1>4. \A g \in Kept : g # f => Owners(g)' = Owners(g) /\ Guests(g)' = Guests(g)
  BY <1>3 DEF Owners, Guests
<1>5. CASE p
  <2>1. /\ Owners(f)' = Owners(f) \cup {l} /\ Guests(f)' = Guests(f) \ {l}
        /\ l \in Guests(f)
    BY <1>3, <1>5 DEF Owners, Guests
  <2>2. \A g \in Kept : /\ Owners(g)' = IF g = f THEN Owners(g) \cup {l} ELSE Owners(g)
                        /\ Guests(g)' = IF g = f THEN Guests(g) \ {l} ELSE Guests(g)
    BY <1>4, <2>1
  <2>3. [g \in Kept |-> Owners(g)'] = [[g \in Kept |-> Owners(g)] EXCEPT ![f] = @ \cup {l}]
    BY <2>2
  <2>4. [g \in Kept |-> Guests(g)'] = [[g \in Kept |-> Guests(g)] EXCEPT ![f] = @ \ {l}]
    BY <2>2
  <2>5. l \in G[f]
    BY <1>1, <2>1
  <2> QED
    BY <1>1, <2>3, <2>4, <2>5 DEF Owned!Promote
<1>6. CASE ~p
  <2>1. /\ Owners(f)' = Owners(f) \ {l} /\ Guests(f)' = Guests(f) \cup {l}
        /\ l \in Owners(f)
    BY <1>3, <1>6 DEF Owners, Guests
  <2>2. \A g \in Kept : /\ Owners(g)' = IF g = f THEN Owners(g) \ {l} ELSE Owners(g)
                        /\ Guests(g)' = IF g = f THEN Guests(g) \cup {l} ELSE Guests(g)
    BY <1>4, <2>1
  <2>3. [g \in Kept |-> Owners(g)'] = [[g \in Kept |-> Owners(g)] EXCEPT ![f] = @ \ {l}]
    BY <2>2
  <2>4. [g \in Kept |-> Guests(g)'] = [[g \in Kept |-> Guests(g)] EXCEPT ![f] = @ \cup {l}]
    BY <2>2
  <2>5. l \in O[f] /\ O[f] # {l}
    BY <1>1, <1>2, <1>6, <2>1
  <2> QED
    BY <1>1, <2>3, <2>4, <2>5 DEF Owned!Demote
<1> QED
  BY <1>5, <1>6

\* What happens to other files is no step of ContainerFile.
LEMMA OtherRefines ==
    ASSUME IInv, IInv', NEW f \in File \ Kept, open' \ {f} = open \ {f},
           \A g \in Kept, k \in Loc :
              /\ (k \in alloc' /\ file'[k] = g) <=> (k \in alloc /\ file[k] = g)
              /\ k \in alloc /\ file[k] = g => (isprim'[k] <=> isprim[k])
    PROVE  UNCHANGED Owned!vars
<1>1. \A g \in Kept : Owners(g)' = Owners(g) /\ Guests(g)' = Guests(g)
  <2>1. alloc \subseteq Loc /\ alloc' \subseteq Loc
    BY DEF IInv, TypeOK
  <2> QED
    BY <2>1 DEF Owners, Guests
<1>2. /\ [g \in Kept |-> Owners(g)'] = [g \in Kept |-> Owners(g)]
      /\ [g \in Kept |-> Guests(g)'] = [g \in Kept |-> Guests(g)]
  BY <1>1
<1>3. open' \cap Kept = open \cap Kept
  OBVIOUS
<1> QED
  BY <1>2, <1>3, ListSets, ListSetsNext DEF IInv, Owned!vars

\* A step that changes no registered locator is no step of ContainerFile.
LEMMA StutterRefines ==
    ASSUME UNCHANGED <<prim, sec, open>>
    PROVE  UNCHANGED Owned!vars
  BY DEF Owned!vars

\* A new locator in any file.
LEMMA RegisterStep ==
    ASSUME IInv, IInv', NEW l \in Loc, NEW f \in File, NEW h, NEW p \in BOOLEAN,
           Register(l, f, h, p),
           open' = IF p THEN open \cup {f} ELSE open, p \/ f \in open
    PROVE  [Owned!Next]_(Owned!vars)
<1>1. CASE f \in Kept
  <2>1. h \in HandleSet
    <3>1. l \in alloc' /\ at'[l] = h /\ file'[l] = f /\ f # NoFile
      BY RegistryAssumption DEF Register, IInv, TypeOK
    <3>2. h.tree \in trees' /\ h # Nowhere
      BY <3>1, RegistryAssumption DEF IInv, NothingDangles, Nowhere, TypeOK
    <3> QED
      BY <3>1, <3>2 DEF IInv, TypeOK
  <2> QED
    BY <1>1, <2>1, RegisterRefines DEF Owned!Next
<1>2. CASE f \notin Kept
  <2>1. /\ l \notin alloc /\ alloc' = alloc \cup {l}
        /\ file' = [file EXCEPT ![l] = f] /\ isprim' = [isprim EXCEPT ![l] = p]
        /\ file \in [Loc -> File \cup {NoFile}] /\ isprim \in [Loc -> BOOLEAN]
    BY DEF Register, IInv, TypeOK
  <2>2. \A g \in Kept, k \in Loc :
          /\ (k \in alloc' /\ file'[k] = g) <=> (k \in alloc /\ file[k] = g)
          /\ k \in alloc /\ file[k] = g => (isprim'[k] <=> isprim[k])
    BY <1>2, <2>1
  <2> QED
    BY <1>2, <2>2, OtherRefines
<1> QED
  BY <1>1, <1>2

\* dat1Annul in any file.
LEMMA AnnulStep ==
    ASSUME IInv, IInv', NEW l \in alloc, file[l] \in File, NEW flags,
           Annul(l, flags), alloc' = alloc \ {l}
    PROVE  [Owned!Next]_(Owned!vars)
<1>1. l \in Loc /\ alloc \subseteq Loc
  BY DEF IInv, TypeOK
<1>2. CASE file[l] \in Kept
  BY <1>1, <1>2, AnnulRefines DEF Owned!Next
<1>3. CASE file[l] \notin Kept
  <2>1. PICK S : /\ ClearLocators(S) /\ l \in S /\ \A k \in S : file[k] = file[l]
                 /\ open' \ {file[l]} = open \ {file[l]}
    <3>1. CASE LastPrimary(l)
      <4>1. \A k \in Cascade(l) : file[k] = file[l]
        BY DEF Cascade, IInv, ListsAgree
      <4> QED
        BY <3>1, <4>1 DEF Annul, CloseFile, Cascade
    <3>2. CASE ~LastPrimary(l)
      BY <3>2 DEF Annul, Unregister
    <3> QED
      BY <3>1, <3>2
  <2>2. \A k \in Loc : /\ file'[k] = IF k \in S THEN NoFile ELSE file[k]
                       /\ k \notin S => (isprim'[k] <=> isprim[k])
    BY <2>1 DEF ClearLocators
  <2>3. \A g \in Kept, k \in Loc :
          /\ (k \in alloc' /\ file'[k] = g) <=> (k \in alloc /\ file[k] = g)
          /\ k \in alloc /\ file[k] = g => (isprim'[k] <=> isprim[k])
    BY <1>3, <2>1, <2>2, KeptFiles
  <2> QED
    BY <1>3, <2>1, <2>3, OtherRefines
<1> QED
  BY <1>2, <1>3

\* datPrmry in any file.
LEMMA MoveStep ==
    ASSUME IInv, IInv', NEW l \in alloc, file[l] \in File, NEW p \in BOOLEAN,
           isprim[l] # p, ~p => ~LastPrimary(l),
           isprim' = [isprim EXCEPT ![l] = p], UNCHANGED <<alloc, file, open>>
    PROVE  [Owned!Next]_(Owned!vars)
<1>1. l \in Loc
  BY DEF IInv, TypeOK
<1>2. CASE file[l] \in Kept
  BY <1>1, <1>2, MoveRefines DEF Owned!Next
<1>3. CASE file[l] \notin Kept
  <2>1. \A g \in Kept, k \in Loc :
          k \in alloc /\ file[k] = g => (isprim'[k] <=> isprim[k])
    BY <1>3 DEF IInv, TypeOK
  <2> QED
    BY <1>3, <2>1, OtherRefines
<1> QED
  BY <1>2, <1>3

\* Every step of Registry is a step of ContainerFile or leaves it unchanged.
LEMMA NextOwned == IInv /\ IInv' /\ [Next]_vars => [Owned!Next]_(Owned!vars)
<1> SUFFICES ASSUME IInv, IInv', [Next]_vars
             PROVE  [Owned!Next]_(Owned!vars)
  OBVIOUS
<1>1. CASE UNCHANGED <<prim, sec, open>>
  BY <1>1, StutterRefines
<1>2. ASSUME NEW l \in Loc, DatAnnul(l) \/ HdsErase(l)
      PROVE  [Owned!Next]_(Owned!vars)
  <2>1. CASE Registered(l)
    <3>1. /\ l \in alloc /\ alloc' = alloc \ {l} /\ file[l] \in File
          /\ \E flags : Annul(l, flags)
      BY <1>2, <2>1 DEF DatAnnul, HdsErase, Registered, IInv, TypeOK
    <3> QED
      BY <3>1, AnnulStep
  <2>2. CASE ~Registered(l)
    BY <1>1, <1>2, <2>2 DEF DatAnnul, HdsErase, Valid
  <2> QED
    BY <2>1, <2>2
<1>3. ASSUME NEW l \in Loc, NEW f \in File, HdsNew(l, f) \/ HdsOpen(l, f)
      PROVE  [Owned!Next]_(Owned!vars)
  <2>1. PICK h : Register(l, f, h, TRUE)
    BY <1>3 DEF HdsNew, HdsOpen
  <2>2. open' = open \cup {f}
    BY <1>3 DEF HdsNew, HdsOpen
  <2> QED
    BY <2>1, <2>2, RegisterStep
<1>4. ASSUME NEW k \in Loc, NEW l \in Loc, DatClone(k, l) \/ DatFind(k, l) \/ DatParen(k, l)
      PROVE  [Owned!Next]_(Owned!vars)
  <2>1. PICK h : Register(l, file[k], h, FALSE)
    BY <1>4 DEF DatClone, DatFind, DatParen, Derive
  <2>2. k \in alloc /\ file[k] # NoFile /\ open' = open
    BY <1>4 DEF DatClone, DatFind, DatParen, Derive, Valid, Registered
  <2>3. file[k] \in File /\ file[k] \in open
    BY <2>2 DEF IInv, TypeOK, NothingDangles
  <2> QED
    BY <2>1, <2>2, <2>3, RegisterStep
<1>5. ASSUME NEW l \in Loc, Promote(l) \/ Demote(l)
      PROVE  [Owned!Next]_(Owned!vars)
  <2>1. PICK p \in BOOLEAN :
           /\ isprim[l] # p /\ (~p => ~LastPrimary(l))
           /\ isprim' = [isprim EXCEPT ![l] = p]
    BY <1>5 DEF Promote, Demote, Registered, IInv, TypeOK
  <2>2. l \in alloc /\ file[l] \in File /\ UNCHANGED <<alloc, file, open>>
    BY <1>5 DEF Promote, Demote, Registered, IInv, TypeOK
  <2> QED
    BY <2>1, <2>2, MoveStep
<1>6. ASSUME NEW l \in Loc, DemoteOnly(l)
      PROVE  UNCHANGED Owned!vars
  <2>1. /\ file[l] \in File \ Kept
        /\ ClearLocators({l}) /\ UNCHANGED <<alloc, open>>
    BY <1>6, RegistryAssumption DEF DemoteOnly, Kept
  <2>2. \A k \in Loc : /\ file'[k] = IF k = l THEN NoFile ELSE file[k]
                       /\ k # l => (isprim'[k] <=> isprim[k])
    BY <2>1 DEF ClearLocators
  <2>3. \A g \in Kept, k \in Loc :
          /\ (k \in alloc' /\ file'[k] = g) <=> (k \in alloc /\ file[k] = g)
          /\ k \in alloc /\ file[k] = g => (isprim'[k] <=> isprim[k])
    BY <2>1, <2>2, KeptFiles
  <2> QED
    BY <2>1, <2>3, OtherRefines
<1>7. ASSUME NEW l \in Loc, DatPrmryAnnulled(l)
      PROVE  UNCHANGED <<prim, sec, open>>
  BY <1>7 DEF DatPrmryAnnulled
<1>8. CASE UNCHANGED vars
  BY <1>1, <1>8 DEF vars
<1> QED
  BY <1>1, <1>2, <1>3, <1>4, <1>5, <1>6, <1>7, <1>8 DEF Next

\* In the beginning no file is open, in both specifications.
LEMMA InitOwned == Init => Owned!Init
<1> SUFFICES ASSUME Init PROVE Owned!Init
  OBVIOUS
<1>1. ToSet(<<>>) = {}
  BY DEF ToSet
<1> QED
  BY <1>1, KeptFiles DEF Init, Owned!Init

\* A file is open exactly while it has an owner, in the terms of ContainerFile.
OwnedIffOpen == \A f \in Kept : f \in open <=> ToSet(prim[f]) # {}

\* The steps of ContainerFile keep it.
LEMMA OwnedStep == IInv /\ OwnedIffOpen /\ [Owned!Next]_(Owned!vars) => OwnedIffOpen'
<1> SUFFICES ASSUME IInv, OwnedIffOpen, [Owned!Next]_(Owned!vars), NEW g \in Kept
             PROVE  g \in open' <=> ToSet(prim'[g]) # {}
  BY DEF OwnedIffOpen
<1> DEFINE O == [h \in Kept |-> ToSet(prim[h])]
<1>1. (g \in open <=> O[g] # {}) /\ O'[g] = ToSet(prim'[g]) /\ g \in File
  BY KeptFiles DEF OwnedIffOpen
<1>2. CASE UNCHANGED Owned!vars
  BY <1>1, <1>2 DEF Owned!vars
<1>3. CASE Owned!Next
  <2>1. PICK f \in Kept, l \in Loc :
           \/ Owned!Open(f, l) \/ Owned!Join(f, l) \/ Owned!Promote(f, l)
           \/ Owned!Demote(f, l) \/ Owned!Leave(f, l) \/ Owned!Close(f, l)
    BY <1>3 DEF Owned!Next
  <2>2. O[f] = ToSet(prim[f]) /\ (f \in open <=> O[f] # {})
    BY DEF OwnedIffOpen
  <2>3. CASE Owned!Open(f, l)
    <3>1. open' \cap Kept = (open \cap Kept) \cup {f} /\ O' = [O EXCEPT ![f] = @ \cup {l}]
      BY <2>3 DEF Owned!Open
    <3> QED
      BY <1>1, <3>1
  <2>4. CASE Owned!Join(f, l)
    BY <1>1, <2>4 DEF Owned!Join
  <2>5. CASE Owned!Promote(f, l)
    <3>1. l \in ToSet(sec[f])
      BY <2>5 DEF Owned!Promote
    <3>2. f \in open
      <4>1. l \in alloc /\ file[l] = f /\ f # NoFile
        BY <3>1, KeptFiles DEF IInv, ListsAgree
      <4> QED
        BY <4>1 DEF IInv, NothingDangles
    <3>3. open' \cap Kept = open \cap Kept /\ O' = [O EXCEPT ![f] = @ \cup {l}]
      BY <2>5 DEF Owned!Promote
    <3> QED
      BY <1>1, <3>2, <3>3
  <2>6. CASE Owned!Demote(f, l)
    BY ZenonT(40), <1>1, <2>2, <2>6 DEF Owned!Demote
  <2>7. CASE Owned!Leave(f, l)
    <3>1. /\ open' \cap Kept = open \cap Kept
          /\ O' = [O EXCEPT ![f] = @ \ {l}] /\ O[f] # {l}
      BY <2>7 DEF Owned!Leave
    <3>2. O[f] \ {l} = {} <=> O[f] = {}
      <4> HIDE DEF O
      <4>1. O[f] # {} => \E x \in O[f] : x # l
        BY <3>1
      <4> QED
        BY <4>1
    <3>3. O'[g] = IF g = f THEN O[f] \ {l} ELSE O[g]
      BY <3>1
    <3> QED
      BY <1>1, <2>2, <3>1, <3>2, <3>3
  <2>8. CASE Owned!Close(f, l)
    BY <1>1, <2>2, <2>8 DEF Owned!Close
  <2> QED
    BY <2>1, <2>3, <2>4, <2>5, <2>6, <2>7, <2>8
<1> QED
  BY <1>2, <1>3

\* In the beginning no file is open or has an owner.
LEMMA InitOwnedIffOpen == Init => OwnedIffOpen
<1>1. ToSet(<<>>) = {}
  BY DEF ToSet
<1> QED
  BY <1>1, KeptFiles DEF Init, OwnedIffOpen

\* The registry implements files that are owned by their primary locators,
\* for the files whose last primary locator is never demoted with datPrmry.
THEOREM RegistryImplementsContainerFile == Spec => ImplementsContainerFile
<1>1. IInv /\ IInv' /\ [Next]_vars => [Owned!Next]_(Owned!vars)
  BY NextOwned
<1> QED
  BY <1>1, InitOwned, InitInv, NextInv, PTL DEF Spec, ImplementsContainerFile, Owned!Spec

\* These files are open as long as they have a primary locator, and no longer.
THEOREM OpenWhilePrimary == Spec => []OpenIffPrimary
<1>1. IInv /\ IInv' /\ [Next]_vars => [Owned!Next]_(Owned!vars)
  BY NextOwned
<1>2. IInv /\ OwnedIffOpen => OpenIffPrimary
  <2>1. ASSUME IInv, OwnedIffOpen, NEW f \in Kept PROVE f \in open <=> prim[f] # <<>>
    <3>1. prim[f] \in Seq(Loc)
      BY <2>1, KeptFiles DEF IInv, TypeOK
    <3>2. ToSet(prim[f]) = {} <=> prim[f] = <<>>
      BY <3>1, EmptyList
    <3> QED
      BY <2>1, <3>2 DEF OwnedIffOpen
  <2> QED
    BY <2>1 DEF OpenIffPrimary
<1> QED
  BY <1>1, <1>2, InitInv, NextInv, InitOwnedIffOpen, OwnedStep, PTL DEF Spec

-----------------------------------------------------------------------------
(* One tree of Handles for each file *)

SameTree ==
    \A k, l \in alloc :
        file[k] = file[l] /\ file[k] \in Kept => at[k].tree = at[l].tree

\* Annulling leaves the other locators where they are.
LEMMA FewerLocators ==
    ASSUME SameTree,
           \A k \in alloc' : file'[k] \in Kept =>
               k \in alloc /\ file'[k] = file[k] /\ at'[k] = at[k]
    PROVE  SameTree'
  BY DEF SameTree

\* A new locator for a Handle in the tree of the file.
LEMMA RegisterSameTree ==
    ASSUME IInv, SameTree, NEW l \in Loc, NEW f \in File, NEW t, NEW kind, NEW p,
           Register(l, f, [tree |-> t, kind |-> kind], p),
           \A k \in alloc : file[k] = f /\ f \in Kept => at[k].tree = t
    PROVE  SameTree'
<1>1. /\ l \notin alloc /\ alloc' = alloc \cup {l} /\ alloc \subseteq Loc
      /\ file'[l] = f /\ \A k \in alloc : file'[k] = file[k]
      /\ at'[l].tree = t /\ \A k \in alloc : at'[k] = at[k]
  BY DEF Register, IInv, TypeOK
<1> QED
  BY <1>1 DEF SameTree

\* Every step keeps the locators of a file in one tree.
LEMMA NextSameTree ==
    IInv /\ KnownIsOpen /\ OpenIffPrimary /\ SameTree /\ [Next]_vars => SameTree'
<1> SUFFICES ASSUME IInv, KnownIsOpen, OpenIffPrimary, SameTree, [Next]_vars
             PROVE  SameTree'
  OBVIOUS
<1>1. CASE UNCHANGED <<alloc, file, at>>
  BY <1>1 DEF SameTree
<1>2. ASSUME NEW S, ClearLocators(S), alloc' \subseteq alloc
      PROVE  SameTree'
  <2>1. \A k \in Loc : /\ file'[k] = IF k \in S THEN NoFile ELSE file[k]
                       /\ k \notin S => at'[k] = at[k]
    BY <1>2 DEF ClearLocators
  <2>2. \A k \in alloc' : file'[k] \in Kept =>
          k \in alloc /\ file'[k] = file[k] /\ at'[k] = at[k]
    BY <1>2, <2>1, KeptFiles DEF IInv, TypeOK
  <2> QED
    BY <2>2, FewerLocators
<1>3. ASSUME NEW l \in Loc, DatAnnul(l) \/ HdsErase(l)
      PROVE  SameTree'
  <2>1. alloc' \subseteq alloc
    BY <1>3 DEF DatAnnul, HdsErase
  <2>2. CASE \E flags : Annul(l, flags)
    BY <1>2, <2>1, <2>2 DEF Annul, CloseFile, Unregister
  <2>3. CASE UNCHANGED <<file, at>>
    BY <2>1, <2>3 DEF SameTree
  <2> QED
    BY <1>3, <2>2, <2>3 DEF DatAnnul, HdsErase
<1>4. ASSUME NEW l \in Loc, NEW f \in File, HdsNew(l, f)
      PROVE  SameTree'
  <2>1. \A k \in alloc : file[k] # f
    BY <1>4, KeptFiles, RegistryAssumption DEF HdsNew, KnownIsOpen, IInv, NothingDangles
  <2> QED
    BY <1>4, <2>1, RegisterSameTree DEF HdsNew
<1>5. ASSUME NEW l \in Loc, NEW f \in File, HdsOpen(l, f)
      PROVE  SameTree'
  <2>1. PICK t \in TreeFor(f) : Register(l, f, [tree |-> t, kind |-> "top"], TRUE)
    BY <1>5 DEF HdsOpen
  <2>2. ASSUME NEW k \in alloc, file[k] = f, f \in Kept
        PROVE  at[k].tree = t
    <3>1. prim[f] # <<>> /\ prim[f] \in Seq(Loc)
      BY <2>2, RegistryAssumption DEF OpenIffPrimary, IInv, NothingDangles, TypeOK
    <3>2. 1 \in DOMAIN prim[f]
      BY <3>1
    <3>3. prim[f][1] \in ToSet(prim[f])
      BY <3>2 DEF ToSet
    <3>4. prim[f][1] \in alloc /\ file[prim[f][1]] = f
      BY <3>3 DEF IInv, ListsAgree
    <3>5. t = at[prim[f][1]].tree
      BY <2>1, <3>1 DEF TreeFor
    <3> QED
      BY <2>2, <3>4, <3>5 DEF SameTree
  <2> QED
    BY ZenonT(40), <2>1, <2>2, RegisterSameTree
<1>6. ASSUME NEW k \in Loc, NEW l \in Loc, DatClone(k, l) \/ DatFind(k, l) \/ DatParen(k, l)
      PROVE  SameTree'
  <2>1. PICK kind : Derive(k, l, kind)
    BY <1>6 DEF DatClone, DatFind, DatParen
  <2> DEFINE t == at[k].tree
  <2>2. PICK f \in File : /\ k \in alloc /\ file[k] = f
                          /\ Register(l, f, [tree |-> t, kind |-> kind], FALSE)
    BY <2>1 DEF Derive, Valid, Registered, IInv, TypeOK
  <2>3. \A m \in alloc : file[m] = f /\ f \in Kept => at[m].tree = t
    BY <2>2 DEF SameTree
  <2>4. /\ l \notin alloc /\ alloc' = alloc \cup {l} /\ alloc \subseteq Loc
        /\ file'[l] = f /\ \A m \in alloc : file'[m] = file[m]
        /\ at'[l].tree = t /\ \A m \in alloc : at'[m] = at[m]
    BY <2>2 DEF Register, IInv, TypeOK
  <2> QED
    BY <2>3, <2>4 DEF SameTree
<1>7. ASSUME NEW l \in Loc, Promote(l) \/ Demote(l) \/ DatPrmryAnnulled(l)
      PROVE  UNCHANGED <<alloc, file, at>>
  BY <1>7 DEF Promote, Demote, DatPrmryAnnulled
<1>8. ASSUME NEW l \in Loc, DemoteOnly(l)
      PROVE  SameTree'
  BY <1>2, <1>8 DEF DemoteOnly
<1>9. CASE UNCHANGED vars
  BY <1>1, <1>9 DEF vars
<1> QED
  BY <1>1, <1>3, <1>4, <1>5, <1>6, <1>7, <1>8, <1>9 DEF Next

\* The locators of a file share one tree of Handles, and so see the same locks
\* and the same erase flags; no tree serves two files.
THEOREM OneTreeForEachFile == Spec => []OneTreePerFile
<1>1. Init => SameTree
  BY DEF Init, SameTree
<1>2. IInv /\ SameTree => OneTreePerFile
  BY DEF IInv, TreesApart, SameTree, OneTreePerFile
<1> QED
  BY <1>1, <1>2, InitInv, NextInv, KnownFilesAreOpen, OpenWhilePrimary, NextSameTree, PTL DEF Spec

-----------------------------------------------------------------------------
(* Requests to erase a file *)

\* The erase flags of the Handles are the requests made since the file was
\* opened: a flag goes with its Handle.  The files that are open exist.
AskedRight ==
    /\ asked = flagged
    /\ \A h \in flagged : h.tree \in trees
    /\ open \subseteq onDisk

\* Annulling a locator, after the flag of its Handle was set or not.
LEMMA AnnulAsked ==
    ASSUME IInv, AskedRight, NEW l \in Loc, Registered(l),
           NEW extra \in SUBSET {at[l]}, Annul(l, flagged \cup extra),
           asked' = {h \in asked \cup extra : h.tree \in trees'}
    PROVE  AskedRight'
<1> DEFINE flags == flagged \cup extra
<1>1. \A h \in flags : h.tree \in trees
  BY DEF AskedRight, IInv, NothingDangles, Registered
<1>2. asked \cup extra = flags /\ open \subseteq onDisk
  BY DEF AskedRight
<1>3. CASE LastPrimary(l)
  <2>1. /\ trees' = trees \ {at[l].tree} /\ flagged' = {h \in flags : h.tree # at[l].tree}
        /\ open' = open \ {file[l]}
        /\ onDisk' = IF at[l] \in flags THEN onDisk \ {file[l]} ELSE onDisk
    BY <1>3 DEF Annul, CloseFile
  <2>2. asked' = flagged'
    BY <1>1, <1>2, <2>1
  <2> QED
    BY <1>1, <1>2, <2>1, <2>2 DEF AskedRight
<1>4. CASE ~LastPrimary(l)
  <2>1. flagged' = flags /\ trees' = trees /\ open' = open /\ onDisk' = onDisk
    BY <1>4 DEF Annul, Unregister
  <2> QED
    BY <1>1, <1>2, <2>1 DEF AskedRight
<1> QED
  BY <1>3, <1>4

\* Which locators a step can be said to have erased.
LEMMA OneErased ==
    ASSUME NEW l, HdsErase(l)
    PROVE  {at[k] : k \in {m \in alloc : HdsErase(m)}} = {at[l]}
<1>1. l \in alloc /\ alloc' = alloc \ {l}
  BY DEF HdsErase, Valid, Registered
<1>2. ASSUME NEW m \in alloc, HdsErase(m) PROVE m = l
  <2>1. alloc' = alloc \ {m}
    BY <1>2 DEF HdsErase
  <2> QED
    BY <1>1, <2>1
<1> QED
  BY <1>1, <1>2

\* Every step keeps the requests and the flags the same.
LEMMA NextAsked ==
    ASSUME IInv, AskedRight, [AskedNext]_<<vars, asked>>
    PROVE  AskedRight'
<1> DEFINE now == {at[l] : l \in {k \in alloc : HdsErase(k)}}
<1>1. CASE UNCHANGED <<vars, asked>>
  BY <1>1 DEF AskedRight, vars
<1>2. CASE AskedNext
  <2>1. Next /\ asked' = {h \in asked \cup now : h.tree \in trees'}
    BY <1>2 DEF AskedNext
  <2>2. CASE \E l \in Loc : HdsErase(l)
    <3>1. PICK l \in Loc : HdsErase(l)
      BY <2>2
    <3>2. now = {at[l]}
      BY <3>1, OneErased
    <3>3. Registered(l) /\ Annul(l, flagged \cup {at[l]})
      BY <3>1 DEF HdsErase, Valid
    <3> QED
      BY <2>1, <3>2, <3>3, AnnulAsked
  <2>3. CASE ~\E l \in Loc : HdsErase(l)
    <3>1. now = {}
      BY <2>3 DEF IInv, TypeOK
    <3>2. asked' = {h \in asked : h.tree \in trees'}
      BY <2>1, <3>1
    <3>3. ASSUME flagged' = flagged, trees \subseteq trees', open' \subseteq onDisk'
          PROVE  AskedRight'
      BY <3>2, <3>3 DEF AskedRight
    <3>4. ASSUME NEW l \in Loc, DatAnnul(l) PROVE AskedRight'
      <4>1. CASE Registered(l)
        <5>1. Annul(l, flagged)
          BY <3>4, <4>1 DEF DatAnnul
        <5>2. PICK extra \in SUBSET {at[l]} : extra = {}
          OBVIOUS
        <5>3. flagged \cup extra = flagged /\ asked \cup extra = asked
          BY <5>2
        <5>4. Annul(l, flagged \cup extra)
          BY <5>1, <5>3
        <5>5. asked' = {h \in asked \cup extra : h.tree \in trees'}
          BY <3>2, <5>3
        <5> QED
          BY <4>1, <5>4, <5>5, AnnulAsked
      <4>2. CASE ~Registered(l)
        <5>1. flagged' = flagged /\ trees' = trees /\ open' = open /\ onDisk' = onDisk
          BY <3>4, <4>2 DEF DatAnnul
        <5> QED
          BY <3>3, <5>1 DEF AskedRight
      <4> QED
        BY <4>1, <4>2
    <3>5. ASSUME NEW l \in Loc, NEW f \in File, HdsNew(l, f) \/ HdsOpen(l, f) PROVE AskedRight'
      <4>1. flagged' = flagged /\ trees \subseteq trees' /\ open' = open \cup {f}
        BY <3>5 DEF HdsNew, HdsOpen
      <4>2. f \in onDisk' /\ onDisk \subseteq onDisk'
        BY <3>5 DEF HdsNew, HdsOpen
      <4> QED
        BY <3>3, <4>1, <4>2 DEF AskedRight
    <3>6. ASSUME flagged' = flagged, trees' = trees, open' = open, onDisk' = onDisk
          PROVE  AskedRight'
      BY <3>3, <3>6 DEF AskedRight
    <3>7. ASSUME NEW k \in Loc, NEW l \in Loc, DatClone(k, l) \/ DatFind(k, l) \/ DatParen(k, l)
          PROVE  AskedRight'
      <4>1. \E kind : Derive(k, l, kind)
        BY <3>7 DEF DatClone, DatFind, DatParen
      <4> QED
        BY <3>6, <4>1 DEF Derive
    <3>8. ASSUME NEW l \in Loc,
                 Promote(l) \/ Demote(l) \/ DemoteOnly(l) \/ DatPrmryAnnulled(l)
          PROVE  AskedRight'
      BY <3>6, <3>8 DEF Promote, Demote, DemoteOnly, DatPrmryAnnulled
    <3> QED
      BY <2>1, <2>3, <3>4, <3>5, <3>7, <3>8 DEF Next
  <2> QED
    BY <2>2, <2>3
<1> QED
  BY <1>1, <1>2

\* Only annulling the one primary locator closes a file.
LEMMA ClosedBy ==
    ASSUME IInv, [Next]_vars, NEW l \in alloc, file[l] \in open \ open', prim[file[l]] = <<l>>
    PROVE  /\ Registered(l)
           /\ \/ HdsErase(l) /\ Annul(l, flagged \cup {at[l]})
              \/ Annul(l, flagged)
<1> DEFINE f == file[l]
<1>1. CASE UNCHANGED vars
  BY <1>1 DEF vars
<1>2. ASSUME NEW k \in Loc, NEW flags, Registered(k), Annul(k, flags) PROVE k = l
  <2>1. LastPrimary(k)
    BY <1>2 DEF Annul, Unregister
  <2>2. open' = open \ {file[k]}
    BY <1>2, <2>1 DEF Annul, CloseFile
  <2>3. file[k] = file[l]
    BY <2>2
  <2>4. <<k>> = <<l>>
    BY <2>1, <2>3 DEF LastPrimary
  <2> QED
    BY <2>4
<1>3. ASSUME NEW k \in Loc, HdsErase(k) PROVE k = l /\ Registered(k) /\ Annul(k, flagged \cup {at[k]})
  <2>1. Registered(k) /\ Annul(k, flagged \cup {at[k]})
    BY <1>3 DEF HdsErase, Valid
  <2> QED
    BY <1>2, <2>1
<1>4. ASSUME NEW k \in Loc, DatAnnul(k) PROVE k = l /\ Registered(k) /\ Annul(k, flagged)
  <2>1. Registered(k)
    BY <1>4 DEF DatAnnul
  <2>2. Annul(k, flagged)
    BY <1>4, <2>1 DEF DatAnnul
  <2> QED
    BY <1>2, <2>1, <2>2
<1>5. CASE Next
  <2>1. ASSUME NEW k \in Loc, NEW g \in File, HdsNew(k, g) \/ HdsOpen(k, g) PROVE FALSE
    BY <2>1 DEF HdsNew, HdsOpen
  <2>2. ASSUME NEW k \in Loc, NEW m \in Loc, DatClone(k, m) \/ DatFind(k, m) \/ DatParen(k, m)
        PROVE  FALSE
    <3>1. \E kind : Derive(k, m, kind)
      BY <2>2 DEF DatClone, DatFind, DatParen
    <3> QED
      BY <3>1 DEF Derive
  <2>3. ASSUME NEW k \in Loc, Promote(k) \/ Demote(k) \/ DemoteOnly(k) \/ DatPrmryAnnulled(k)
        PROVE  FALSE
    BY <2>3 DEF Promote, Demote, DemoteOnly, DatPrmryAnnulled
  <2> QED
    BY <1>3, <1>4, <1>5, <2>1, <2>2, <2>3 DEF Next
<1> QED
  BY <1>1, <1>5

\* A request to erase a file is kept until the file is closed and honoured
\* then, and no file is deleted without one, for any files and locators, any
\* order of calls and any reuse of the memory of Handles (hdsErase, dat1Annul).
THEOREM EraseRequestsHonoured == AskedSpec => EraseHonoured
<1>1. AskedInit => IInv /\ AskedRight
  BY InitInv DEF AskedInit, AskedRight, Init
<1>2. IInv /\ AskedRight /\ [AskedNext]_<<vars, asked>> => IInv' /\ AskedRight'
  <2> SUFFICES ASSUME IInv, AskedRight, [AskedNext]_<<vars, asked>> PROVE IInv' /\ AskedRight'
    OBVIOUS
  <2>1. [Next]_vars
    BY DEF AskedNext
  <2> QED
    BY <2>1, NextInv, NextAsked
<1> DEFINE Honoured ==
      \A l \in alloc :
          LET f == file[l] IN
          f \in open \ open' /\ prim[f] = <<l>> =>
              /\ at[l] \in asked => f \notin onDisk'
              /\ f \notin onDisk' => at[l] \in asked \/ HdsErase(l)
<1>3. IInv /\ AskedRight /\ [AskedNext]_<<vars, asked>> => [Honoured]_<<vars, asked>>
  <2> SUFFICES ASSUME IInv, AskedRight, [AskedNext]_<<vars, asked>>,
                      NEW l \in alloc, file[l] \in open \ open', prim[file[l]] = <<l>>
               PROVE  /\ at[l] \in asked => file[l] \notin onDisk'
                      /\ file[l] \notin onDisk' => at[l] \in asked \/ HdsErase(l)
    OBVIOUS
  <2>1. [Next]_vars
    BY DEF AskedNext
  <2>2. LastPrimary(l) /\ file[l] \in onDisk /\ asked = flagged
    BY DEF LastPrimary, AskedRight
  <2>3. CASE HdsErase(l) /\ Annul(l, flagged \cup {at[l]})
    <3>1. onDisk' = IF at[l] \in flagged \cup {at[l]} THEN onDisk \ {file[l]} ELSE onDisk
      BY <2>2, <2>3 DEF Annul, CloseFile
    <3> QED
      BY <2>3, <3>1
  <2>4. CASE Annul(l, flagged)
    <3>1. onDisk' = IF at[l] \in flagged THEN onDisk \ {file[l]} ELSE onDisk
      BY <2>2, <2>4 DEF Annul, CloseFile
    <3> QED
      BY <2>2, <3>1
  <2> QED
    BY <2>1, <2>3, <2>4, ClosedBy
<1> QED
  BY <1>1, <1>2, <1>3, PTL DEF AskedSpec, EraseHonoured
=============================================================================
