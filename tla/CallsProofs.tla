----------------------------- MODULE CallsProofs -----------------------------
(***************************************************************************)
(* Proofs about modules that MCCalls checks side by side: Fortran, Values,   *)
(* Tuning, Opening and Names, for any values of their constants.  They share *)
(* no state, and no part uses a lemma of another.                            *)
(*                                                                         *)
(* Fortran: FTypeOK and FHeldOnce are inductive.  The wrappers are many but  *)
(* of few kinds: lemma FKinds reduces a step to a call that leaves the        *)
(* locators alone, hands a locator back, returns a new one, links or flushes *)
(* a group, or to the program giving a variable a constant.                  *)
(*                                                                         *)
(* Values: so are the routines: lemma CallKinds reduces a step to one that   *)
(* stores nothing, stores all values, or makes the object anew.  The buffer  *)
(* of datGet1C is large enough because a greater number has no fewer digits, *)
(* so that datClen holds the text of any value (ImageFits), and the          *)
(* temporary one because datLen tells the size in memory of every type.      *)
(* What was put is held as its image in the type of the object, and what was *)
(* got is the image of that (RoundInv); an image of a value that can be      *)
(* stored is undone by the conversion back (ValueComesBack), for texts       *)
(* because the digits of a number tell that number (DecimalOk, ScanOk).      *)
(*                                                                         *)
(* Tuning: a thread that has stored what the environment gives sets the flag *)
(* next, and no thread looks again once it is set (StoredOnce); so those     *)
(* that can still store could do so at the last hdsTune (NoneJoins).  Until  *)
(* hdsTune is called the value is the default one or that of the             *)
(* environment, and so is whatever a thread is about to write.               *)
(*                                                                         *)
(* Opening: nothing holds the steps of a call together.  Every locator in     *)
(* the list of the file is one that the program has or that belongs to a     *)
(* single call, and where that call is tells what its locator refers to.     *)
(* The list is empty, and the file closed, only when no call has put a       *)
(* locator there.                                                           *)
(*                                                                         *)
(* Names: the locator is that of the last node of the HDS path, and its      *)
(* links are those of all nodes, one after the other (NamesInv).  What is    *)
(* made of a path of links is what is made of each (CleanAppend), since no   *)
(* name of a cell lies across the beginning of a link; so induction on the   *)
(* path shows what hdsTrace tells of it (GoodPath).                          *)
(***************************************************************************)
EXTENDS Fortran, Values, Tuning, Opening, Names, ListsProofs, FiniteSetTheorems

-----------------------------------------------------------------------------
(* Fortran *)

FInv == FTypeOK /\ FHeldOnce

\* A call that changes nothing but the status, and leaves that if it is bad.
Quiet == Same /\ fstat' \in {fstat, "bad"}

\* The wrappers that need a locator and return none, or none at all.
LEMMA QuietKinds ==
    ASSUME FTypeOK
    PROVE  /\ \A x \in FVar : Uses(x) \/ UsesIfOk(x) \/ Asks0(x) => Quiet
           /\ \A x, y \in FVar : UsesBoth(x, y) => Quiet
           /\ NeedsNone \/ Refuses => Quiet
           /\ Same /\ UNCHANGED fstat => Quiet
<1>1. fstat \in {"ok", "bad"}
  BY DEF FTypeOK
<1>2. ASSUME NEW x \in FVar, Uses(x) PROVE Quiet
  BY <1>1, <1>2 DEF Uses, Quiet, Outcomes, ImportStatus
<1>3. ASSUME NEW x \in FVar, UsesIfOk(x) PROVE Quiet
  BY <1>1, <1>2, <1>3 DEF UsesIfOk, Quiet, Same, fvars
<1>4. ASSUME NEW x \in FVar, Asks0(x) PROVE Quiet
  BY <1>1, <1>4 DEF Asks0, Quiet, ImportStatus
<1>5. ASSUME NEW x \in FVar, NEW y \in FVar, UsesBoth(x, y) PROVE Quiet
  BY <1>1, <1>5 DEF UsesBoth, Quiet, Outcomes, ImportStatus
<1>6. NeedsNone \/ Refuses => Quiet
  BY <1>1 DEF NeedsNone, Refuses, Quiet, Outcomes
<1> QED
  BY <1>1, <1>2, <1>3, <1>4, <1>5, <1>6 DEF Quiet

\* A call that gives the locator of x back, or DAT__NOLOC.
HandsBackKind(x) ==
    \E freed \in BOOLEAN, st \in {"ok", "bad"} :
        /\ Given(x) /\ HandsBack(x, freed, st)
        /\ fstat = "bad" => st = "bad" /\ (freed => DAT_ANNUL(x))

\* A call that returns a new locator in z, or DAT__NOLOC.
ReturnsKind(z) ==
    \/ /\ fstat # "bad"
       /\ \E l \in FLoc \ flive : /\ flive' = flive \cup {l}
                                  /\ flinked' = flinked \/ flinked' = flinked \cup {l}
                                  /\ Overwrites(z, l)
       /\ fstat' = "ok"
       /\ UNCHANGED flost
    \/ /\ fstat' = "bad"
       /\ Overwrites(z, NoLoc)
       /\ UNCHANGED <<flive, flinked, flost>>

\* A wrapper that returns a locator is of that kind.
LEMMA ReturnsOk ==
    ASSUME NEW z \in FVar, NEW st, NEW P, NEW G, Returns(z, st, P, G),
           fstat = "bad" => st = "bad"
    PROVE  ReturnsKind(z)
<1>1. \A l \in FLoc : Export(l, "ok") = l
  BY FortranAssumption DEF Export
<1>2. Export(Null, "bad") = NoLoc
  BY DEF Export
<1>3. CASE \E l \in FLoc \ flive, g \in G :
              /\ flive' = flive \cup {l}
              /\ flinked' = IF g THEN flinked \cup {l} ELSE flinked
              /\ Overwrites(z, Export(l, "ok"))
              /\ fstat' = "ok" /\ UNCHANGED flost
  <2>1. CASE fstat # "bad"
    BY <1>1, <1>3, <2>1 DEF ReturnsKind
  <2>2. CASE st = "bad"
    BY <1>2, <2>2 DEF Returns, Outcomes, ReturnsKind
  <2> QED
    BY <2>1, <2>2
<1>4. CASE fstat' = "bad" /\ Overwrites(z, Export(Null, "bad")) /\ UNCHANGED <<flive, flinked, flost>>
  BY <1>2, <1>4 DEF ReturnsKind
<1> QED
  BY <1>3, <1>4 DEF Returns

-----------------------------------------------------------------------------
(* The wrappers, kind by kind *)

\* The wrappers that hand a locator back.
LEMMA HandsBackOk ==
    ASSUME FTypeOK, NEW x \in FVar,
           DAT_ANNUL(x) \/ HDS_CLOSE(x) \/ HDS_ERASE(x) \/ DAT_PRMRY(x)
             \/ \E y \in FVar : DAT_MOVE(x, y)
    PROVE  HandsBackKind(x) \/ UNCHANGED fvars
<1>1. CASE DAT_ANNUL(x)
  BY <1>1 DEF DAT_ANNUL, HandsBackKind, Outcomes, ImportStatus, FTypeOK
<1>2. CASE HDS_CLOSE(x)
  BY <1>2 DEF HDS_CLOSE, HandsBackKind, ImportStatus, FTypeOK
<1>3. CASE HDS_ERASE(x)
  BY <1>3 DEF HDS_ERASE, HandsBackKind, ImportStatus, FTypeOK
<1>4. CASE DAT_PRMRY(x)
  BY <1>4 DEF DAT_PRMRY, HandsBackKind, Outcomes, ImportStatus, FTypeOK
<1>5. CASE \E y \in FVar : DAT_MOVE(x, y)
  BY <1>5 DEF DAT_MOVE, HandsBackKind, Outcomes, ImportStatus, FTypeOK
<1> QED
  BY <1>1, <1>2, <1>3, <1>4, <1>5

\* The wrappers that return a new locator.
LEMMA NewOk ==
    ASSUME NEW x \in FVar, NEW y \in FVar, NEW z \in FVar,
           \/ DAT_CCOPY(x, y, z)
           \/ DAT_CELL(x, z) \/ DAT_CLONE(x, z) \/ DAT_COERC(x, z) \/ DAT_FIND(x, z)
           \/ DAT_INDEX(x, z) \/ DAT_PAREN(x, z) \/ DAT_SLICE(x, z) \/ DAT_VEC(x, z)
           \/ DAT_TEMP(z) \/ HDS_NEW(z) \/ HDS_OPEN(z) \/ HDS_WILD(z)
    PROVE  ReturnsKind(z)
<1>1. ASSUME NEW G, MakesFrom(x, z, G) PROVE ReturnsKind(z)
  BY <1>1, ReturnsOk DEF MakesFrom, ImportStatus
<1>2. DAT_CCOPY(x, y, z) => ReturnsKind(z)
  BY ReturnsOk DEF DAT_CCOPY, ImportStatus
<1>3. DAT_CELL(x, z) \/ DAT_CLONE(x, z) \/ DAT_SLICE(x, z) \/ DAT_VEC(x, z) => ReturnsKind(z)
  BY <1>1 DEF DAT_CELL, DAT_CLONE, DAT_SLICE, DAT_VEC
<1>4. DAT_FIND(x, z) \/ DAT_INDEX(x, z) \/ DAT_PAREN(x, z) => ReturnsKind(z)
  BY <1>1 DEF DAT_FIND, DAT_INDEX, DAT_PAREN
<1>5. DAT_COERC(x, z) \/ DAT_TEMP(z) \/ HDS_NEW(z) \/ HDS_OPEN(z) \/ HDS_WILD(z) => ReturnsKind(z)
  BY ReturnsOk DEF DAT_COERC, DAT_TEMP, HDS_NEW, HDS_OPEN, HDS_WILD
<1> QED
  BY <1>2, <1>3, <1>4, <1>5

\* The wrappers that leave the locators as they are.
LEMMA QuietOk ==
    ASSUME FTypeOK
    PROVE  /\ Quiet0 => Quiet
           /\ \A x \in FVar : Quiet1(x) => Quiet
           /\ \A x, y \in FVar : Quiet2(x, y) => Quiet
<1>1. Quiet0 => Quiet
  BY QuietKinds
     DEF Quiet0,
         DAT_CCTYP, DAT_CHSCN, DAT_ERMSG, DAT_WHERE, HDS_EWILD, HDS_GTUNE, HDS_SHOW,
         HDS_STATE, HDS_STOP, HDS_TUNE, DAT_TUNE, DAT_ERTXT, HDS_START
<1>2. ASSUME NEW x \in FVar, Quiet1(x) PROVE Quiet
  <2>1. \/ Uses(x) \/ UsesIfOk(x) \/ Asks0(x) \/ NeedsNone \/ Refuses
        \/ Same /\ UNCHANGED fstat
    BY <1>2
       DEF Quiet1,
           DAT_ALTER, DAT_BASIC, DAT_CLEN, DAT_DREP, DAT_ERASE, DAT_GET, DAT_GETC,
           DAT_GET_, DAT_GET0C, DAT_GET0_, DAT_GET1C, DAT_GET1_, DAT_GETV_, DAT_GETVC,
           DAT_LEN, DAT_MAP, DAT_MAP_, DAT_MAPL, DAT_MAPV, DAT_MAPN, DAT_MOULD, DAT_MSG,
           DAT_NAME, DAT_NCOMP, DAT_NEW, DAT_NEWC, DAT_NEW0, DAT_NEW0_, DAT_NEW0C,
           DAT_NEW1, DAT_NEW1_, DAT_NEW1C, DAT_PREC, DAT_PRIM, DAT_PUT_, DAT_PUT,
           DAT_PUT1C, DAT_PUT1_, DAT_PUTV_, DAT_PUTVC, DAT_PUT0C, DAT_PUT0_, DAT_REF,
           DAT_REFCT, DAT_RENAM, DAT_RESET, DAT_RETYP, DAT_SHAPE, DAT_SIZE, DAT_STATE,
           DAT_STRUC, DAT_THERE, DAT_TYPE, DAT_UNMAP, DAT_VALID, HDS_COPY, HDS_FREE,
           HDS_GROUP, HDS_LOCK, HDS_INFOI, HDS_TRACE, DAT_CONV, DAT_RCERA, DAT_ERDSC,
           DAT_ERDSN
  <2> QED
    BY <2>1, QuietKinds
<1>3. ASSUME NEW x \in FVar, NEW y \in FVar, Quiet2(x, y) PROVE Quiet
  BY <1>3, QuietKinds DEF Quiet2, DAT_COPY, DAT_DSAME, DAT_RCOPY
<1> QED
  BY <1>1, <1>2, <1>3

\* Every step is of one of these kinds.
LEMMA FKinds ==
    ASSUME FTypeOK, [FNext]_fvars
    PROVE  \/ UNCHANGED fvars \/ Quiet \/ Recovers \/ HDS_FLUSH
           \/ \E x \in FVar : HDS_LINK(x) \/ HandsBackKind(x) \/ ReturnsKind(x) \/ Assigns(x)
<1>1. CASE UNCHANGED fvars
  BY <1>1
<1>2. CASE HDS_FLUSH \/ Quiet0
  BY <1>2, QuietOk, QuietKinds
<1>3. ASSUME NEW x \in FVar,
             DAT_ANNUL(x) \/ HDS_CLOSE(x) \/ HDS_ERASE(x) \/ DAT_PRMRY(x) \/ HDS_LINK(x) \/ Quiet1(x)
      PROVE  UNCHANGED fvars \/ Quiet \/ HDS_LINK(x) \/ HandsBackKind(x)
  BY <1>3, HandsBackOk, QuietOk
<1>4. ASSUME NEW x \in FVar, NEW y \in FVar, DAT_MOVE(x, y) \/ Quiet2(x, y)
      PROVE  UNCHANGED fvars \/ Quiet \/ HandsBackKind(x)
  BY <1>4, HandsBackOk, QuietOk
<1>5. ASSUME NEW z \in FVar, DAT_TEMP(z) \/ HDS_NEW(z) \/ HDS_OPEN(z) \/ HDS_WILD(z)
      PROVE  ReturnsKind(z)
  BY <1>5, NewOk
<1>6. ASSUME NEW x \in FVar, NEW z \in FVar,
             \/ DAT_CELL(x, z) \/ DAT_CLONE(x, z) \/ DAT_COERC(x, z) \/ DAT_FIND(x, z)
             \/ DAT_INDEX(x, z) \/ DAT_PAREN(x, z) \/ DAT_SLICE(x, z) \/ DAT_VEC(x, z)
      PROVE  ReturnsKind(z)
  BY <1>6, NewOk
<1>7. ASSUME NEW x \in FVar, NEW y \in FVar, NEW z \in FVar, DAT_CCOPY(x, y, z)
      PROVE  ReturnsKind(z)
  BY <1>7, NewOk
<1> QED
  BY <1>1, <1>2, <1>3, <1>4, <1>5, <1>6, <1>7 DEF FNext, FCall

-----------------------------------------------------------------------------
(* The invariant *)

\* Storing the new locator l, or DAT__NOLOC, in z.
LEMMA ReturnsInv ==
    ASSUME FInv, NEW z \in FVar, ReturnsKind(z)
    PROVE  FInv'
<1> USE FortranAssumption DEF FInv, FText
<1>1. CASE fstat' = "bad" /\ Overwrites(z, NoLoc) /\ UNCHANGED <<flive, flinked, flost>>
  <2>1. FTypeOK'
    BY <1>1 DEF FTypeOK, Overwrites, Stores
  <2>2. FHeldOnce'
    BY <1>1 DEF FTypeOK, FHeldOnce, Overwrites, Stores
  <2> QED
    BY <2>1, <2>2
<1>2. ASSUME NEW l \in FLoc \ flive,
             flive' = flive \cup {l},
             flinked' = flinked \/ flinked' = flinked \cup {l},
             Overwrites(z, l), fstat' = "ok", flost' = flost
      PROVE  FInv'
  <2>1. FTypeOK'
    BY <1>2 DEF FTypeOK, Overwrites, Stores
  <2>2. FHeldOnce'
    BY <1>2 DEF FTypeOK, FHeldOnce, Overwrites, Stores
  <2> QED
    BY <2>1, <2>2
<1> QED
  BY <1>1, <1>2 DEF ReturnsKind

\* Handing the locator of x back.
LEMMA HandsBackInv ==
    ASSUME FInv, NEW x \in FVar, NEW freed \in BOOLEAN, NEW st \in {"ok", "bad"},
           Given(x), HandsBack(x, freed, st)
    PROVE  FInv'
<1> USE FortranAssumption DEF FInv, FText
<1> DEFINE p == Import(fvar[x])
           back == Export(IF freed THEN Null ELSE p, st)
<1>1. /\ p = IF fvar[x] \in FLoc THEN fvar[x] ELSE Null
      /\ p \in FLoc => p \in flive \ (flost \cup fdropped)
  BY DEF Import, FHeldOnce, Given, FTypeOK
<1>2. back = NoLoc \/ (back = p /\ p \in FLoc /\ ~freed)
  BY <1>1 DEF Export
<1>3. /\ flive' = IF freed THEN flive \ {p} ELSE flive
      /\ flinked' = flinked \cap flive'
      /\ flost' = IF ~freed /\ back # p THEN flost \cup ({p} \cap flive) ELSE flost
      /\ fstat' = st
      /\ fvar' = [fvar EXCEPT ![x] = back]
      /\ fdropped' = fdropped /\ fstale' = fstale
  BY DEF HandsBack
<1> HIDE DEF p, back
<1>4. FTypeOK'
  BY <1>1, <1>2, <1>3 DEF FTypeOK
<1>5. FHeldOnce'
  <2>1. CASE back = p /\ p \in FLoc /\ ~freed
    BY <1>1, <1>2, <1>3, <2>1 DEF FTypeOK, FHeldOnce
  <2>2. CASE back = NoLoc
    BY <1>1, <1>2, <1>3, <2>2 DEF FTypeOK, FHeldOnce, Given
  <2> QED
    BY <1>2, <2>1, <2>2
<1> QED
  BY <1>4, <1>5

\* Every step keeps the invariant.
LEMMA FStepInv ==
    ASSUME FInv, [FNext]_fvars
    PROVE  FInv'
<1> USE FortranAssumption DEF FInv, FText
<1>1. CASE UNCHANGED fvars
  BY <1>1 DEF fvars, FTypeOK, FHeldOnce
<1>2. CASE Quiet
  BY <1>2 DEF Quiet, Same, FTypeOK, FHeldOnce
<1>8. CASE Recovers
  BY <1>8 DEF Recovers, Same, FTypeOK, FHeldOnce
<1>3. CASE HDS_FLUSH
  <2>1. CASE fstat' = "bad" /\ Same
    BY <2>1 DEF Same, FTypeOK, FHeldOnce
  <2>2. CASE (fstat = "ok" /\ ~Same) \/ fstat' # "bad"
    <3>1. FTypeOK'
      BY <1>3, <2>2 DEF HDS_FLUSH, FTypeOK
    <3>2. FHeldOnce'
      BY <1>3, <2>2 DEF HDS_FLUSH, FTypeOK, FHeldOnce
    <3> QED
      BY <3>1, <3>2
  <2> QED
    BY <1>3, <2>1, <2>2 DEF HDS_FLUSH
<1>4. ASSUME NEW x \in FVar, HDS_LINK(x) PROVE FInv'
  BY <1>4 DEF HDS_LINK, Outcomes, FTypeOK, FHeldOnce
<1>5. ASSUME NEW x \in FVar, HandsBackKind(x) PROVE FInv'
  BY <1>5, HandsBackInv DEF HandsBackKind
<1>6. ASSUME NEW x \in FVar, ReturnsKind(x) PROVE FInv'
  BY <1>6, ReturnsInv
<1>7. ASSUME NEW x \in FVar, Assigns(x) PROVE FInv'
  <2>1. FTypeOK'
    BY <1>7 DEF Assigns, Overwrites, Stores, FTypeOK
  <2>2. FHeldOnce'
    BY <1>7 DEF Assigns, Overwrites, Stores, FTypeOK, FHeldOnce
  <2> QED
    BY <2>1, <2>2
<1> QED
  BY <1>1, <1>2, <1>3, <1>4, <1>5, <1>6, <1>7, <1>8, FKinds

-----------------------------------------------------------------------------
(* The theorems *)

\* So it holds in every state.
LEMMA InvHolds == FSpec => []FInv
<1>1. FInit => FInv
  BY FortranAssumption DEF FInit, FInv, FTypeOK, FHeldOnce, FText
<1>2. FInv /\ [FNext]_fvars => FInv'
  BY FStepInv
<1> QED
  BY <1>1, <1>2, PTL DEF FSpec

\* The variables keep their types.
THEOREM FortranTypes == FSpec => []FTypeOK
<1>1. FInv => FTypeOK
  BY DEF FInv
<1> QED
  BY <1>1, InvHolds, PTL

\* The variables of the program and the locators in memory belong together one
\* to one, but for locators that the program overwrote or a failing wrapper
\* did not give back.
THEOREM HeldOnce == FSpec => []FHeldOnce
<1>1. FInv => FHeldOnce
  BY DEF FInv
<1> QED
  BY <1>1, InvHolds, PTL

\* What a step does if the status is bad.
LEMMA BadStatusStep ==
    ASSUME FTypeOK, [FNext]_fvars, fstat = "bad"
    PROVE  /\ flive' = flive \/ \E v \in FVar : DAT_ANNUL(v)
           /\ fstat' = "bad" \/ Recovers
<1>1. CASE UNCHANGED fvars \/ Quiet \/ Recovers
  BY <1>1 DEF fvars, Quiet, Recovers, Same
<1>2. CASE HDS_FLUSH
  BY <1>2 DEF HDS_FLUSH, Same
<1>3. ASSUME NEW x \in FVar, HDS_LINK(x) PROVE flive' = flive /\ fstat' = "bad"
  BY <1>3 DEF HDS_LINK, ImportStatus
<1>4. ASSUME NEW x \in FVar, HandsBackKind(x)
      PROVE  (flive' = flive \/ DAT_ANNUL(x)) /\ fstat' = "bad"
  BY <1>4 DEF HandsBackKind, HandsBack
<1>5. ASSUME NEW x \in FVar, ReturnsKind(x) \/ Assigns(x)
      PROVE  flive' = flive /\ fstat' = "bad"
  BY <1>5 DEF ReturnsKind, Assigns
<1> QED
  BY <1>1, <1>2, <1>3, <1>4, <1>5, FKinds

\* DAT_ANNUL frees the locator, whatever the status.
LEMMA AnnulFrees ==
    ASSUME FTypeOK, NEW v \in FVar, DAT_ANNUL(v)
    PROVE  fvar[v] \notin flive' /\ fvar'[v] = NoLoc
  BY DEF DAT_ANNUL, HandsBack, Import, Export, FTypeOK

\* A bad status is inherited: nothing is made, nothing is freed but by
\* DAT_ANNUL, which always works, and the status stays bad until the program
\* recovers.
THEOREM Inherited == FSpec => FInherited
<1> DEFINE Kept == /\ fstat = "bad" => /\ flive' = flive \/ \E v \in FVar : DAT_ANNUL(v)
                                       /\ fstat' = "bad" \/ Recovers
                   /\ \A v \in FVar : DAT_ANNUL(v) => fvar[v] \notin flive' /\ fvar'[v] = NoLoc
<1>1. FTypeOK /\ [FNext]_fvars => [Kept]_fvars
  BY BadStatusStep, AnnulFrees
<1> QED
  BY <1>1, FortranTypes, PTL DEF FSpec, FInherited

-----------------------------------------------------------------------------
(* Values: numbers, texts and conversions *)

\* The ten digits.
DigitSet == ToSet(Digit)
LEMMA DigitsOk ==
    /\ "-" \notin DigitSet /\ " " \notin DigitSet
    /\ DOMAIN DigitValue = DigitSet
    /\ \A d \in 0..9 : Digit[d + 1] \in DigitSet /\ DigitValue[Digit[d + 1]] = d
    /\ \A c \in DigitSet : DigitValue[c] \in 0..9
<1>1. DOMAIN Digit = 1..10
  BY DEF Digit
<1>2. DigitSet = {Digit[i] : i \in 1..10}
  BY <1>1 DEF DigitSet, ToSet
<1>3. /\ Digit[1] = "0" /\ Digit[2] = "1" /\ Digit[3] = "2" /\ Digit[4] = "3" /\ Digit[5] = "4"
      /\ Digit[6] = "5" /\ Digit[7] = "6" /\ Digit[8] = "7" /\ Digit[9] = "8" /\ Digit[10] = "9"
  BY DEF Digit
<1>4. \A i \in 1..10 : i = 1 \/ i = 2 \/ i = 3 \/ i = 4 \/ i = 5 \/ i = 6 \/ i = 7 \/ i = 8 \/ i = 9 \/ i = 10
  OBVIOUS
<1>5. DigitSet = {"0", "1", "2", "3", "4", "5", "6", "7", "8", "9"}
  BY <1>2, <1>3, <1>4
<1>6. \A i, j \in 1..10 : Digit[i] = Digit[j] => i = j
  BY <1>3, <1>4
<1>7. DigitValue = [c \in DigitSet |-> CHOOSE d \in 0..9 : Digit[d + 1] = c]
  BY DEF DigitValue, DigitSet
<1>8. ASSUME NEW c \in DigitSet PROVE DigitValue[c] \in 0..9 /\ Digit[DigitValue[c] + 1] = c
  <2>1. PICK i \in 1..10 : c = Digit[i]
    BY <1>2
  <2>2. i - 1 \in 0..9 /\ Digit[(i - 1) + 1] = c
    BY <2>1
  <2>3. \E d \in 0..9 : Digit[d + 1] = c
    BY <2>2
  <2> QED
    BY <1>7, <2>3
<1>9. ASSUME NEW d \in 0..9 PROVE Digit[d + 1] \in DigitSet /\ DigitValue[Digit[d + 1]] = d
  <2>1. d + 1 \in 1..10
    OBVIOUS
  <2>2. Digit[d + 1] \in DigitSet
    BY <1>2, <2>1
  <2>3. DigitValue[Digit[d + 1]] \in 0..9 /\ Digit[DigitValue[Digit[d + 1]] + 1] = Digit[d + 1]
    BY <1>8, <2>2
  <2> QED
    BY <1>6, <2>1, <2>2, <2>3
<1>10. "-" \notin DigitSet /\ " " \notin DigitSet
  <2>2. "-" \notin DigitSet
    BY <1>5
  <2>3. " " \notin DigitSet
    BY <1>5
  <2> QED
    BY <2>2, <2>3
<1> QED
  BY <1>7, <1>8, <1>9, <1>10

\* The numbers that the first digits tell, each from the one before.
LEMMA TellingsOk ==
    ASSUME NEW s \in Seq(DigitSet)
    PROVE  /\ Tellings(s) \in [0..Len(s) -> Nat]
           /\ Tellings(s)[0] = 0
           /\ \A k \in 1..Len(s) : Tellings(s)[k] = 10 * Tellings(s)[k - 1] + DigitValue[s[k]]
<1> DEFINE n == Len(s)
           step == [k \in 1..n |-> [x \in Nat |-> 10 * x + DigitValue[s[k]]]]
           Eq(f) == f = [k \in 0..n |-> IF k = 0 THEN 0 ELSE 10 * f[k - 1] + DigitValue[s[k]]]
<1>1. n \in Nat /\ \A k \in 1..n : DigitValue[s[k]] \in Nat
  <2>1. n \in Nat /\ \A k \in 1..n : s[k] \in DigitSet
    OBVIOUS
  <2>2. 0..9 \in SUBSET Nat
    OBVIOUS
  <2> QED
    BY <2>1, <2>2, DigitsOk
<1>2. step \in [1..n -> [Nat -> Nat]]
  BY <1>1
<1>3. PICK g : Follows(g, n, Nat, 0, step)
  <2>1. 0 \in Nat /\ n \in Nat
    OBVIOUS
  <2> HIDE DEF step, n
  <2> QED
    BY <1>2, <2>1, StepByStep
<1>4. g \in [0..n -> Nat] /\ g[0] = 0 /\ \A k \in 1..n : g[k] = step[k][g[k - 1]]
  <2> HIDE DEF step, n
  <2> QED
    BY <1>3 DEF Follows
<1>5. ASSUME NEW k \in 1..n PROVE g[k] = 10 * g[k - 1] + DigitValue[s[k]]
  <2>1. k - 1 \in 0..n
    BY <1>1
  <2>2. g[k - 1] \in Nat
    BY <1>4, <2>1
  <2>3. step[k] = [x \in Nat |-> 10 * x + DigitValue[s[k]]]
    OBVIOUS
  <2> HIDE DEF step
  <2> QED
    BY <1>4, <2>3, <2>2
<1> HIDE DEF step
<1>6. Eq(g)
  BY <1>1, <1>4, <1>5
<1>7. Tellings(s) = CHOOSE f : Eq(f)
  BY DEF Tellings
<1> DEFINE h == Tellings(s)
<1>8. Eq(h)
  <2> HIDE DEF Eq
  <2> QED
    BY <1>6, <1>7
<1> HIDE DEF h
<1>9. /\ DOMAIN h = 0..n /\ h[0] = 0
      /\ \A k \in 1..n : h[k] = 10 * h[k - 1] + DigitValue[s[k]]
  BY <1>1, <1>8
<1>10. \A k \in 0..n : h[k] \in Nat
  <2> DEFINE U == {k \in 0..n : h[k] \in Nat}
  <2>1. 0 \in U
    BY <1>1, <1>9
  <2>2. \A k \in 1..n : k - 1 \in U => k \in U
    BY <1>1, <1>9
  <2> HIDE DEF U
  <2>3. \A k \in 0..n : k \in U
    <3> HIDE DEF n
    <3> QED
      BY <1>1, <2>1, <2>2, UpTo
  <2> QED
    BY <2>3 DEF U
<1>11. h = [k \in 0..n |-> h[k]]
  BY <1>8
<1>12. h \in [0..n -> Nat]
  BY <1>10, <1>11
<1> QED
  BY <1>9, <1>12 DEF h

\* What digits tell, of one and with one more.
LEMMA ToldOk ==
    /\ \A s \in Seq(DigitSet) : Told(s) \in Nat
    /\ \A c \in DigitSet : Told(<<c>>) = DigitValue[c]
    /\ \A s \in Seq(DigitSet), c \in DigitSet : Told(Append(s, c)) = 10 * Told(s) + DigitValue[c]
<1>1. ASSUME NEW s \in Seq(DigitSet) PROVE Told(s) \in Nat
  <2>1. Len(s) \in 0..Len(s)
    OBVIOUS
  <2> QED
    BY <2>1, TellingsOk DEF Told
<1>2. ASSUME NEW c \in DigitSet PROVE Told(<<c>>) = DigitValue[c]
  <2> DEFINE s == <<c>>
  <2>1. s \in Seq(DigitSet) /\ Len(s) = 1 /\ s[1] = c
    OBVIOUS
  <2> HIDE DEF s
  <2>2. Tellings(s)[0] = 0 /\ Tellings(s)[1] = 10 * Tellings(s)[1 - 1] + DigitValue[c]
    BY <2>1, TellingsOk
  <2>3. DigitValue[c] \in 0..9
    BY DigitsOk
  <2>4. Told(s) = DigitValue[c]
    BY <2>1, <2>2, <2>3 DEF Told
  <2> QED
    BY <2>4 DEF s
<1>3. ASSUME NEW s \in Seq(DigitSet), NEW c \in DigitSet
      PROVE  Told(Append(s, c)) = 10 * Told(s) + DigitValue[c]
  <2> DEFINE n == Len(s)
             w == Append(s, c)
             f == Tellings(s)
             g == Tellings(w)
             U == {k \in 0..n : g[k] = f[k]}
  <2>1. /\ w \in Seq(DigitSet) /\ Len(w) = n + 1 /\ n \in Nat /\ w[n + 1] = c
        /\ \A k \in 1..n : w[k] = s[k]
    OBVIOUS
  <2> HIDE DEF w
  <2>2. f[0] = 0 /\ \A k \in 1..n : f[k] = 10 * f[k - 1] + DigitValue[s[k]]
    BY TellingsOk
  <2>3. g[0] = 0 /\ \A k \in 1..(n + 1) : g[k] = 10 * g[k - 1] + DigitValue[w[k]]
    BY <2>1, TellingsOk
  <2> HIDE DEF f, g
  <2>4. 0 \in U
    BY <2>1, <2>2, <2>3
  <2>5. ASSUME NEW k \in 1..n, k - 1 \in U PROVE k \in U
    <3>1. k \in 1..(n + 1) /\ w[k] = s[k] /\ g[k - 1] = f[k - 1] /\ k \in 0..n
      BY <2>1, <2>5
    <3> QED
      BY <2>2, <2>3, <3>1
  <2> HIDE DEF U
  <2>6. \A k \in 0..n : k \in U
    <3> HIDE DEF n
    <3> QED
      BY <2>1, <2>4, <2>5, UpTo
  <2>7. g[n] = f[n]
    BY <2>1, <2>6 DEF U
  <2>8. g[n + 1] = 10 * g[n] + DigitValue[c]
    <3>1. n + 1 \in 1..(n + 1) /\ (n + 1) - 1 = n
      BY <2>1
    <3> QED
      BY <2>1, <2>3, <3>1
  <2>9. Told(s) = f[n] /\ Told(w) = g[n + 1]
    BY <2>1 DEF Told, f, g
  <2> QED
    BY <2>7, <2>8, <2>9 DEF w
<1> QED
  BY <1>1, <1>2, <1>3

\* The digits of a number are those of a tenth of it, and one more.
LEMMA DigitsExist ==
    ASSUME NEW m \in Nat
    PROVE  Digits(m) = [k \in 0..m |-> IF k < 10 THEN <<Digit[k + 1]>>
                                       ELSE Append(Digits(m)[k \div 10], Digit[(k % 10) + 1])]
<1> DEFINE Eq(f, n) == f = [k \in 0..n |-> IF k < 10 THEN <<Digit[k + 1]>>
                                           ELSE Append(f[k \div 10], Digit[(k % 10) + 1])]
           U == {n \in 0..m : \E f : Eq(f, n)}
<1>1. 0 \in U
  <2> DEFINE f == [k \in 0..0 |-> <<Digit[k + 1]>>]
  <2>1. Eq(f, 0)
    OBVIOUS
  <2> HIDE DEF f, Eq
  <2> QED
    BY <2>1
<1>2. ASSUME NEW n \in 1..m, n - 1 \in U PROVE n \in U
  <2>1. PICK g : Eq(g, n - 1)
    BY <1>2
  <2> DEFINE last == IF n < 10 THEN <<Digit[n + 1]>> ELSE Append(g[n \div 10], Digit[(n % 10) + 1])
             f == [k \in 0..n |-> IF k = n THEN last ELSE g[k]]
  <2>2. ASSUME NEW k \in 0..n
        PROVE  f[k] = IF k < 10 THEN <<Digit[k + 1]>> ELSE Append(f[k \div 10], Digit[(k % 10) + 1])
    <3>1. CASE k < 10
      <4>1. CASE k = n
        BY <3>1, <4>1
      <4>2. CASE k # n
        <5>1. k \in 0..(n - 1)
          BY <4>2
        <5>2. g[k] = <<Digit[k + 1]>>
          BY <2>1, <3>1, <5>1
        <5> QED
          BY <3>1, <4>2, <5>2
      <4> QED
        BY <4>1, <4>2
    <3>2. CASE ~(k < 10)
      <4>1. k \div 10 \in 0..(n - 1) /\ k \div 10 # n /\ k \div 10 \in 0..n
        BY <3>2
      <4>2. f[k \div 10] = g[k \div 10]
        BY <4>1
      <4>3. CASE k = n
        <5>1. f[n] = Append(g[n \div 10], Digit[(n % 10) + 1])
          BY <3>2, <4>3
        <5> HIDE DEF f
        <5> QED
          BY <3>2, <4>2, <4>3, <5>1
      <4>4. CASE k # n
        <5>1. k \in 0..(n - 1)
          BY <4>4
        <5>2. g[k] = Append(g[k \div 10], Digit[(k % 10) + 1])
          BY <2>1, <3>2, <5>1
        <5>3. f[k] = g[k]
          BY <4>4
        <5> HIDE DEF f
        <5> QED
          BY <3>2, <4>2, <5>2, <5>3
      <4> QED
        BY <4>3, <4>4
    <3> QED
      BY <3>1, <3>2
  <2>3. f = [k \in 0..n |-> f[k]]
    OBVIOUS
  <2> HIDE DEF f
  <2>4. Eq(f, n)
    BY <2>2, <2>3
  <2> HIDE DEF Eq
  <2> QED
    BY <2>4
<1>3. m \in U
  <2>1. m \in 0..m
    OBVIOUS
  <2> HIDE DEF U
  <2>2. \A k \in 0..m : k \in U
    BY <1>1, <1>2, UpTo
  <2> QED
    BY <2>1, <2>2
<1>4. Digits(m) = CHOOSE f : Eq(f, m)
  BY DEF Digits
<1>5. Eq(Digits(m), m)
  <2>1. PICK f : Eq(f, m)
    BY <1>3
  <2> HIDE DEF Eq
  <2> QED
    BY <1>4, <2>1
<1> QED
  BY <1>5

\* Text s is the digits of k.
Spells(s, k) == s \in Seq(DigitSet) /\ Len(s) > 0 /\ Told(s) = k

\* The digits of a number tell it.
LEMMA DigitsTell ==
    ASSUME NEW m \in Nat
    PROVE  \A k \in 0..m : Spells(Digits(m)[k], k)
<1> DEFINE f == Digits(m)
           U == {k \in 0..m : ~Spells(f[k], k)}
<1>1. /\ \A k \in 0..m : k < 10 => f[k] = <<Digit[k + 1]>>
      /\ \A k \in 0..m : ~(k < 10) => f[k] = Append(f[k \div 10], Digit[(k % 10) + 1])
  <2> DEFINE g == Digits(m)
  <2>1. g = [k \in 0..m |-> IF k < 10 THEN <<Digit[k + 1]>> ELSE Append(g[k \div 10], Digit[(k % 10) + 1])]
    BY DigitsExist
  <2> HIDE DEF g
  <2>2. /\ \A k \in 0..m : k < 10 => g[k] = <<Digit[k + 1]>>
        /\ \A k \in 0..m : ~(k < 10) => g[k] = Append(g[k \div 10], Digit[(k % 10) + 1])
    BY <2>1
  <2> QED
    BY <2>2 DEF g
<1> HIDE DEF f
<1> SUFFICES ASSUME U # {} PROVE FALSE
  BY DEF f
<1>2. PICK k \in U : \A j \in U : k <= j
  <2>1. U \in SUBSET Nat
    OBVIOUS
  <2> HIDE DEF U
  <2> QED
    BY <2>1, LeastElement
<1>3. CASE k < 10
  <2>1. k \in 0..9 /\ f[k] = <<Digit[k + 1]>>
    <3>1. k \in 0..m
      OBVIOUS
    <3>2. f[k] = <<Digit[k + 1]>>
      BY <1>1, <1>3, <3>1
    <3>3. k \in 0..9
      BY <1>3, <3>1
    <3> QED
      BY <3>2, <3>3
  <2>2. Digit[k + 1] \in DigitSet /\ DigitValue[Digit[k + 1]] = k
    BY <2>1, DigitsOk
  <2>3. Told(<<Digit[k + 1]>>) = k
    BY <2>2, ToldOk
  <2>4. <<Digit[k + 1]>> \in Seq(DigitSet) /\ Len(<<Digit[k + 1]>>) > 0
    BY <2>2
  <2> QED
    BY <2>1, <2>3, <2>4 DEF Spells
<1>4. CASE ~(k < 10)
  <2> DEFINE j == k \div 10
             d == k % 10
  <2>1. j \in 0..m /\ j < k /\ d \in 0..9 /\ k = 10 * j + d
    BY <1>4
  <2>2. f[k] = Append(f[j], Digit[d + 1])
    BY <1>1, <1>4
  <2>3. Spells(f[j], j)
    <3>1. ~(k <= j)
      BY <2>1
    <3> QED
      BY <1>2, <2>1, <3>1
  <2> HIDE DEF j, d
  <2>4. Digit[d + 1] \in DigitSet /\ DigitValue[Digit[d + 1]] = d
    BY <2>1, DigitsOk
  <2>5. f[j] \in Seq(DigitSet) /\ Told(f[j]) = j
    BY <2>3 DEF Spells
  <2>6. Told(f[k]) = 10 * j + d
    BY <2>2, <2>4, <2>5, ToldOk
  <2>7. f[k] \in Seq(DigitSet) /\ Len(f[k]) > 0
    BY <2>2, <2>4, <2>5
  <2> QED
    BY <2>1, <2>6, <2>7 DEF Spells
<1> QED
  BY <1>3, <1>4

\* A greater number has no fewer digits.
LEMMA DigitsGrow ==
    ASSUME NEW a \in Nat, NEW b \in Nat, a <= b
    PROVE  /\ Len(Digits(a)[a]) \in Nat /\ Len(Digits(b)[b]) \in Nat
           /\ Len(Digits(a)[a]) <= Len(Digits(b)[b])
<1> DEFINE f == Digits(a)
           g == Digits(b)
           U == {j \in 0..b : \E k \in 0..a : k <= j /\ ~(Len(f[k]) <= Len(g[j]))}
<1>1. ASSUME NEW m \in Nat, NEW k \in 0..m
      PROVE  /\ Digits(m)[k] \in Seq(DigitSet) /\ Len(Digits(m)[k]) \in Nat \ {0}
             /\ k < 10 => Len(Digits(m)[k]) = 1
             /\ ~(k < 10) => /\ k \div 10 \in 0..m
                             /\ Len(Digits(m)[k]) = Len(Digits(m)[k \div 10]) + 1
  <2> DEFINE h == Digits(m)
  <2>1. \A j \in 0..m : h[j] \in Seq(DigitSet) /\ Len(h[j]) > 0
    BY DigitsTell DEF Spells
  <2>2. h[k] = IF k < 10 THEN <<Digit[k + 1]>> ELSE Append(h[k \div 10], Digit[(k % 10) + 1])
    <3>1. h = [j \in 0..m |-> IF j < 10 THEN <<Digit[j + 1]>>
                              ELSE Append(h[j \div 10], Digit[(j % 10) + 1])]
      BY DigitsExist
    <3> HIDE DEF h
    <3> QED
      BY <3>1
  <2> HIDE DEF h
  <2>3. CASE k < 10
    BY <2>1, <2>2, <2>3 DEF h
  <2>4. CASE ~(k < 10)
    <3>1. k \div 10 \in 0..m
      BY <2>4
    <3>2. Len(h[k]) = Len(h[k \div 10]) + 1
      BY <2>1, <2>2, <2>4, <3>1
    <3> QED
      BY <2>1, <2>4, <3>1, <3>2 DEF h
  <2> QED
    BY <2>3, <2>4
<1>2. /\ \A k \in 0..a : Len(f[k]) \in Nat \ {0} /\ (k < 10 => Len(f[k]) = 1)
      /\ \A k \in 0..b : Len(g[k]) \in Nat \ {0} /\ (k < 10 => Len(g[k]) = 1)
      /\ \A k \in 0..a : ~(k < 10) => k \div 10 \in 0..a /\ Len(f[k]) = Len(f[k \div 10]) + 1
      /\ \A k \in 0..b : ~(k < 10) => k \div 10 \in 0..b /\ Len(g[k]) = Len(g[k \div 10]) + 1
  BY <1>1
<1> HIDE DEF f, g
<1>3. U = {}
  <2> SUFFICES ASSUME U # {} PROVE FALSE
    OBVIOUS
  <2>1. PICK j \in U : \A i \in U : j <= i
    <3>1. U \in SUBSET Nat
      OBVIOUS
    <3> HIDE DEF U
    <3> QED
      BY <3>1, LeastElement
  <2>2. PICK k \in 0..a : k <= j /\ ~(Len(f[k]) <= Len(g[j]))
    OBVIOUS
  <2>3. j \in 0..b
    OBVIOUS
  <2> HIDE DEF U
  <2>4. ~(k < 10) /\ ~(j < 10)
    <3> DEFINE x == Len(f[k])
               y == Len(g[j])
    <3>1. x \in Nat \ {0} /\ y \in Nat \ {0} /\ (k < 10 => x = 1) /\ ~(x <= y)
      BY <1>2, <2>2, <2>3
    <3> HIDE DEF x, y
    <3>2. ~(k < 10)
      BY <3>1
    <3> QED
      BY <2>2, <2>3, <3>2
  <2>5. /\ k \div 10 \in 0..a /\ j \div 10 \in 0..b
        /\ k \div 10 <= j \div 10 /\ ~(j <= j \div 10)
    BY <2>2, <2>3, <2>4
  <2>6. ~(Len(f[k \div 10]) <= Len(g[j \div 10]))
    <3> DEFINE kk == k \div 10
               jj == j \div 10
    <3>1. Len(f[k]) = Len(f[kk]) + 1 /\ Len(g[j]) = Len(g[jj]) + 1
      BY <1>2, <2>2, <2>3, <2>4
    <3>2. kk \in 0..a /\ jj \in 0..b
      BY <2>5
    <3> HIDE DEF kk, jj
    <3>3. Len(f[kk]) \in Nat /\ Len(g[jj]) \in Nat
      BY <1>2, <3>2
    <3>4. ~(Len(f[kk]) <= Len(g[jj]))
      BY <2>2, <3>1, <3>3
    <3> QED
      BY <3>4 DEF kk, jj
  <2>7. j \div 10 \in U
    BY <2>5, <2>6 DEF U
  <2> QED
    BY <2>1, <2>5, <2>7
<1>4. a \in 0..a /\ b \in 0..b
  OBVIOUS
<1> QED
  BY <1>2, <1>3, <1>4 DEF f, g

\* L is the numeral of n: the digits ds, which begin at place p, after the sign.
IsNumeral(L, n, ds, p) ==
    /\ ds \in Seq(DigitSet) /\ Len(ds) > 0
    /\ p = IF n < 0 THEN 2 ELSE 1
    /\ n = IF n < 0 THEN -Told(ds) ELSE Told(ds)
    /\ L = [i \in 1..(Len(ds) + p - 1) |-> L[i]]
    /\ p = 2 => L[1] = "-"
    /\ \A i \in 1..Len(ds) : L[i + p - 1] = ds[i]

\* A number as a text is its numeral.
LEMMA DecimalOk ==
    ASSUME NEW n \in Int
    PROVE  \E ds, p : IsNumeral(Decimal(n), n, ds, p)
<1>1. CASE n < 0
  <2> DEFINE m == -n
             ds == Digits(m)[m]
             L == <<"-">> \o ds
  <2>1. m \in Nat
    BY <1>1
  <2>2. Spells(ds, m)
    <3> HIDE DEF m
    <3>1. m \in 0..m
      BY <2>1
    <3> QED
      BY <2>1, <3>1, DigitsTell
  <2> HIDE DEF ds
  <2>3. ds \in Seq(DigitSet) /\ Len(ds) > 0 /\ Told(ds) = m
    BY <2>2 DEF Spells
  <2>4. ds \in Seq(DigitSet \cup {"-"}) /\ <<"-">> \in Seq(DigitSet \cup {"-"})
    BY <2>3
  <2>5. /\ L = [i \in 1..(Len(ds) + 1) |-> L[i]] /\ L[1] = "-"
        /\ \A i \in 1..Len(ds) : L[i + 1] = ds[i]
    BY <2>4
  <2>6. Decimal(n) = L
    BY <1>1 DEF Decimal, ds
  <2> HIDE DEF L
  <2>7. IsNumeral(L, n, ds, 2)
    <3>1. Len(ds) + 2 - 1 = Len(ds) + 1 /\ \A i \in 1..Len(ds) : i + 2 - 1 = i + 1
      BY <2>3
    <3>2. n = IF n < 0 THEN -Told(ds) ELSE Told(ds)
      BY <1>1, <2>3
    <3>3. L = [i \in 1..(Len(ds) + 2 - 1) |-> L[i]]
      BY <2>5, <3>1
    <3>4. \A i \in 1..Len(ds) : L[i + 2 - 1] = ds[i]
      BY <2>5, <3>1
    <3> QED
      BY <1>1, <2>3, <2>5, <3>2, <3>3, <3>4 DEF IsNumeral
  <2> QED
    BY <2>6, <2>7
<1>2. CASE ~(n < 0)
  <2> DEFINE ds == Digits(n)[n]
  <2>1. Spells(ds, n)
    <3>1. n \in Nat /\ n \in 0..n
      BY <1>2
    <3> QED
      BY <3>1, DigitsTell
  <2>2. Decimal(n) = ds
    BY <1>2 DEF Decimal
  <2> HIDE DEF ds
  <2>3. ds \in Seq(DigitSet) /\ Len(ds) > 0 /\ Told(ds) = n
    BY <2>1 DEF Spells
  <2>4. IsNumeral(ds, n, ds, 1)
    <3>1. ds = [i \in 1..Len(ds) |-> ds[i]] /\ Len(ds) + 1 - 1 = Len(ds)
      BY <2>3
    <3>2. \A i \in 1..Len(ds) : ds[i + 1 - 1] = ds[i]
      BY <2>3
    <3> QED
      BY <1>2, <2>3, <3>1, <3>2 DEF IsNumeral
  <2> QED
    BY <2>2, <2>4
<1> QED
  BY <1>1, <1>2

\* A text of k characters.
IsText(s, k) == s = [i \in 1..k |-> s[i]]

\* The part of a text from one place to another.
LEMMA PartOfText ==
    ASSUME NEW k \in Nat, NEW s, IsText(s, k), NEW p \in 1..(k + 1), NEW q \in 0..k, p <= q + 1
    PROVE  /\ Len(s) = k /\ DOMAIN s = 1..k
           /\ IsText(SubSeq(s, p, q), q - p + 1) /\ Len(SubSeq(s, p, q)) = q - p + 1
           /\ \A i \in 1..(q - p + 1) : SubSeq(s, p, q)[i] = s[p + i - 1]
<1> DEFINE S == {s[i] : i \in 1..k}
<1>1. s = [i \in 1..k |-> s[i]]
  BY DEF IsText
<1>2. s \in [1..k -> S]
  BY <1>1
<1> HIDE DEF S
<1>3. s \in Seq(S) /\ Len(s) = k /\ DOMAIN s = 1..k
  <2>1. DOMAIN s = 1..k
    BY <1>2
  <2>2. s \in Seq(S)
    BY <1>2
  <2> QED
    BY <2>1, <2>2
<1> DEFINE w == SubSeq(s, p, q)
<1>4. /\ w \in Seq(S) /\ Len(w) = q - p + 1
      /\ \A i \in 1..(q - p + 1) : w[i] = s[p + i - 1]
  <2>1. CASE p <= q
    <3>1. p \in 1..Len(s) /\ q \in 1..Len(s)
      BY <1>3, <2>1
    <3> QED
      BY <1>3, <2>1, <3>1
  <2>2. CASE ~(p <= q)
    BY <1>3, <2>2
  <2> QED
    BY <2>1, <2>2
<1> HIDE DEF w
<1>5. IsText(w, q - p + 1)
  BY <1>4 DEF IsText
<1> QED
  BY <1>3, <1>4, <1>5 DEF w

\* Two texts are the same if they have the same characters.
LEMMA SameText ==
    ASSUME NEW k \in Nat, NEW s, NEW t, IsText(s, k), IsText(t, k), \A i \in 1..k : s[i] = t[i]
    PROVE  s = t
BY DEF IsText

\* A text padded or cut.
LEMMA PaddedOk ==
    ASSUME NEW j \in Nat, NEW s, IsText(s, j), NEW k \in Nat
    PROVE  /\ IsText(Padded(s, k), k) /\ Len(s) = j
           /\ \A i \in 1..k : Padded(s, k)[i] = IF i <= j THEN s[i] ELSE " "
<1>1. Len(s) = j
  BY DEF IsText
<1>2. Padded(s, k) = [i \in 1..k |-> IF i <= j THEN s[i] ELSE " "]
  BY <1>1 DEF Padded
<1> QED
  BY <1>1, <1>2 DEF IsText

\* A numeral followed by blanks is scanned as the number that it is of.
LEMMA ScanOk ==
    ASSUME NEW n \in Int, NEW k \in Nat, Len(Decimal(n)) <= k
    PROVE  Scanned(Padded(Decimal(n), k)) = {n} /\ Inked(Padded(Decimal(n), k)) # {}
<1> DEFINE L == Decimal(n)
<1>1. PICK ds, p : IsNumeral(L, n, ds, p)
  BY DecimalOk
<1> DEFINE e == Len(ds) + p - 1
           s == Padded(L, k)
<1>2. /\ ds \in Seq(DigitSet) /\ Len(ds) \in Nat /\ Len(ds) > 0 /\ p \in {1, 2} /\ e \in Nat
      /\ p <= e /\ e >= 1 /\ Len(ds) = e - p + 1
      /\ \A i \in 1..Len(ds) : i + p - 1 = p + i - 1
  BY <1>1 DEF IsNumeral
<1>3. /\ IsText(L, e) /\ (p = 2 => L[1] = "-")
      /\ \A i \in 1..Len(ds) : L[p + i - 1] = ds[i]
      /\ p = IF n < 0 THEN 2 ELSE 1
      /\ n = IF n < 0 THEN -Told(ds) ELSE Told(ds)
  BY <1>1, <1>2 DEF IsNumeral, IsText
<1>4. /\ e <= k
      /\ IsText(s, k)
      /\ \A i \in 1..k : s[i] = IF i <= e THEN L[i] ELSE " "
  <2>1. /\ IsText(Padded(L, k), k) /\ Len(L) = e
        /\ \A i \in 1..k : Padded(L, k)[i] = IF i <= e THEN L[i] ELSE " "
    <3> HIDE DEF L, e
    <3> QED
      BY ZenonT(40), <1>2, <1>3, PaddedOk
  <2> QED
    BY <2>1
<1> HIDE DEF L, s, e
<1>41. k \in Nat /\ e \in Nat /\ Len(ds) \in Nat /\ p \in Nat /\ Len(ds) = e - p + 1
      /\ 1 <= p /\ p <= 2 /\ p <= e /\ e <= k
  <2>1. e <= k
    BY <1>4
  <2>2. p \in Nat /\ 1 <= p /\ p <= 2
    BY <1>2
  <2>3. e \in Nat /\ Len(ds) \in Nat /\ p <= e /\ Len(ds) = e - p + 1
    BY <1>2
  <2> QED
    BY <2>1, <2>2, <2>3
<1>5. \A i \in p..e : s[i] \in DigitSet /\ s[i] = ds[i - p + 1]
  <2> SUFFICES ASSUME NEW i \in p..e PROVE s[i] \in DigitSet /\ s[i] = ds[i - p + 1]
    OBVIOUS
  <2> DEFINE j == i - p + 1
  <2>1. j \in 1..Len(ds) /\ p + j - 1 = i /\ i \in 1..k /\ i <= e
    BY <1>41
  <2> HIDE DEF j
  <2>2. s[i] = L[i] /\ L[i] = ds[j]
    BY <1>3, <1>4, <2>1
  <2>3. ds[j] \in DigitSet
    BY <1>2, <2>1
  <2> QED
    BY <2>2, <2>3 DEF j
<1>6. s[1] # " " /\ (s[1] = "-" <=> p = 2)
  <2>0. 1 \in 1..k /\ 1 <= e
    BY <1>41
  <2>1. CASE p = 2
    <3>1. s[1] = "-"
      BY <1>3, <1>4, <2>0, <2>1
    <3> QED
      BY <2>1, <3>1
  <2>2. CASE p = 1
    <3>0. 1 \in p..e
      BY <1>41, <2>2
    <3>1. s[1] \in DigitSet
      BY <1>5, <3>0
    <3>2. \A c \in DigitSet : c # " " /\ c # "-"
      BY DigitsOk
    <3>3. p # 2
      BY <2>2
    <3> QED
      BY <3>1, <3>2, <3>3
  <2> QED
    BY <1>2, <2>1, <2>2
<1>7. Len(s) = k /\ DOMAIN s = 1..k /\ 1 \in 1..(k + 1) /\ k \in 0..k /\ 1 \in 1..k
  <2>1. 1 \in 1..(k + 1) /\ k \in 0..k /\ 1 <= k + 1 /\ 1 \in 1..k
    BY <1>41
  <2> QED
    BY <1>4, <2>1, PartOfText
<1>8. Inked(s) # {} /\ Inked(s) \in SUBSET (1..k) /\ 1 \in Inked(s)
  BY <1>6, <1>7 DEF Inked
<1>9. Blankless(s) = s
  <2> DEFINE M == {k + 1} \cup Inked(s)
  <2>1. 1 \in M /\ \A y \in M : 1 <= y
    BY <1>8
  <2>2. \A x \in M : (\A y \in M : x <= y) => x = 1
    BY <1>8, <2>1
  <2> HIDE DEF M
  <2>3. Min(M) = 1
    BY <2>1, <2>2 DEF Min
  <2>4. Blankless(s) = SubSeq(s, 1, k)
    BY <1>7, <2>3 DEF Blankless, M
  <2>5. /\ IsText(SubSeq(s, 1, k), k - 1 + 1)
        /\ \A i \in 1..(k - 1 + 1) : SubSeq(s, 1, k)[i] = s[1 + i - 1]
    <3>1. 1 <= k + 1
      BY <1>41
    <3>2. IsText(s, k)
      BY <1>4
    <3> QED
      BY <1>7, <3>1, <3>2, PartOfText
  <2>6. k - 1 + 1 = k /\ \A i \in 1..k : 1 + i - 1 = i
    OBVIOUS
  <2> DEFINE w == SubSeq(s, 1, k)
  <2>7. IsText(w, k) /\ \A i \in 1..k : w[i] = s[i]
    BY <2>5, <2>6
  <2> HIDE DEF w
  <2>8. w = s
    BY <1>4, <2>7, SameText
  <2> QED
    BY <2>4, <2>8 DEF w
<1> DEFINE first == IF s # <<>> /\ s[1] = "-" THEN 2 ELSE 1
           Good(i) == \A j \in first..i : s[j] \in DOMAIN DigitValue
           G == {0} \cup {i \in first..Len(s) : Good(i)}
           last == Max(G)
           num == Told(SubSeq(s, first, last))
<1>10. Scanned(s) = IF last = 0 THEN {} ELSE {IF first = 2 THEN -num ELSE num}
  BY <1>9 DEF Scanned
<1>11. first = p
  <2>1. s # <<>>
    <3>1. Len(<<>>) = 0
      OBVIOUS
    <3> QED
      BY <1>41, <1>7, <3>1
  <2> QED
    BY <1>2, <1>6, <2>1
<1>12. last = e
  <2>1. Good(e)
    BY <1>5, <1>11, DigitsOk
  <2>2. ASSUME NEW i \in first..Len(s), Good(i) PROVE i <= e
    <3> SUFFICES ASSUME i > e PROVE FALSE
      BY <1>2, <1>7, <1>11
    <3>1. e + 1 \in 1..k /\ ~(e + 1 <= e) /\ e + 1 \in first..i
      BY <1>2, <1>7, <1>11
    <3>2. s[e + 1] = " "
      BY <1>4, <3>1
    <3> QED
      BY <2>2, <3>1, <3>2, DigitsOk
  <2>3. e \in G
    <3>1. e \in p..k
      BY <1>41
    <3> QED
      BY <1>7, <1>11, <2>1, <3>1
  <2>4. \A y \in G : y \in Int /\ e >= y
    BY <1>2, <1>7, <1>11, <2>2
  <2> HIDE DEF G
  <2>5. \A x \in G : (\A y \in G : x >= y) => x = e
    BY <1>2, <2>3, <2>4
  <2> QED
    BY <2>3, <2>4, <2>5 DEF Max
<1> HIDE DEF first, last
<1>13. SubSeq(s, p, e) = ds
  <2> DEFINE w == SubSeq(s, p, e)
             c == e - p + 1
  <2>1. p \in 1..(k + 1) /\ e \in 0..k /\ p <= e + 1
    BY <1>41
  <2>2. IsText(w, c) /\ \A i \in 1..c : w[i] = s[p + i - 1]
    BY <1>4, <2>1, PartOfText
  <2>3. IsText(ds, c)
    BY <1>2 DEF IsText
  <2> HIDE DEF w
  <2>4. ASSUME NEW i \in 1..c PROVE w[i] = ds[i]
    <3> DEFINE q == p + i - 1
    <3>1. q \in p..e /\ q - p + 1 = i
      BY <1>2
    <3> HIDE DEF q, c
    <3>2. s[q] = ds[i]
      BY <1>5, <3>1
    <3> QED
      BY <2>2, <3>2 DEF q
  <2>5. c \in Nat
    BY <1>2
  <2> HIDE DEF c
  <2>6. w = ds
    BY <2>2, <2>3, <2>4, <2>5, SameText
  <2> QED
    BY <2>6 DEF w
<1>14. num = Told(ds) /\ last # 0
  BY <1>2, <1>11, <1>12, <1>13
<1> HIDE DEF num
<1>15. Scanned(s) = {n}
  <2>1. Told(ds) \in Nat
    BY <1>2, ToldOk
  <2>2. n = IF first = 2 THEN -num ELSE num
    BY <1>2, <1>3, <1>11, <1>14, <2>1
  <2> QED
    BY <1>10, <1>14, <2>2
<1> QED
  BY <1>8, <1>15 DEF s, L

\* What is scanned is a number.
LEMMA ScannedOk ==
    ASSUME NEW k \in Nat, NEW s, IsText(s, k), Inked(s) # {}
    PROVE  Scanned(s) \subseteq Int
<1> DEFINE p == Min({Len(s) + 1} \cup Inked(s))
           b == Blankless(s)
           first == IF b # <<>> /\ b[1] = "-" THEN 2 ELSE 1
           Good(i) == \A j \in first..i : b[j] \in DOMAIN DigitValue
           G == {i \in first..Len(b) : Good(i)}
           last == Max({0} \cup G)
           ds == SubSeq(b, first, last)
<1>1. DOMAIN s = 1..k /\ Len(s) = k /\ Inked(s) \in SUBSET (1..k)
  <2>1. Len(s) = k
    BY PaddedOk
  <2>2. DOMAIN s = 1..k
    BY DEF IsText
  <2> QED
    BY <2>1, <2>2 DEF Inked
<1>2. p \in 1..(k + 1)
  <2> DEFINE M == {Len(s) + 1} \cup Inked(s)
  <2>1. M \in SUBSET Nat /\ M # {} /\ M \in SUBSET (1..(k + 1))
    BY <1>1
  <2>2. PICK x \in M : \A y \in M : x <= y
    <3> HIDE DEF M
    <3> QED
      BY <2>1, LeastElement
  <2> HIDE DEF M
  <2>3. Min(M) \in M
    BY <2>2 DEF Min
  <2> QED
    BY <2>1, <2>3 DEF M
<1>3. PICK m \in Nat : IsText(b, m) /\ Len(b) = m
  <2>1. b = SubSeq(s, p, k) /\ k \in 0..k /\ p <= k + 1 /\ k - p + 1 \in Nat
    BY <1>1, <1>2 DEF Blankless
  <2> HIDE DEF p, b
  <2>2. IsText(b, k - p + 1) /\ Len(b) = k - p + 1
    BY <1>2, <2>1, PartOfText
  <2> QED
    BY <2>1, <2>2
<1>4. Scanned(s) = IF last = 0 THEN {} ELSE {IF first = 2 THEN -Told(ds) ELSE Told(ds)}
  BY DEF Scanned
<1> SUFFICES ASSUME last # 0 PROVE Told(ds) \in Int
  <2> HIDE DEF last, first, ds
  <2> QED
    BY <1>4
<1> HIDE DEF b
<1>5. first \in {1, 2}
  OBVIOUS
<1> HIDE DEF first
<1>6. G # {}
  <2> SUFFICES ASSUME G = {} PROVE FALSE
    OBVIOUS
  <2>1. {0} \cup {} = {0} /\ Max({0}) = 0
    BY DEF Max
  <2> HIDE DEF G
  <2> QED
    BY <2>1
<1>7. last \in G
  <2>1. G \in SUBSET (1..m)
    BY <1>3, <1>5
  <2>2. PICK i \in G : TRUE
    BY <1>6
  <2> HIDE DEF G
  <2>3. Max(G) \in G /\ \A y \in G : Max(G) >= y
    BY <2>1, <2>2, LastPosition
  <2> DEFINE x == Max(G)
  <2>31. x \in G /\ \A y \in G : x >= y
    BY <2>3
  <2> HIDE DEF x
  <2>4. x \in G /\ x \in Nat /\ \A y \in {0} \cup G : y \in Nat /\ x >= y
    BY <1>3, <2>1, <2>31
  <2>5. \A z \in {0} \cup G : (\A y \in {0} \cup G : z >= y) => z = x
    BY <2>4
  <2>6. Max({0} \cup G) = x
    BY <2>4, <2>5 DEF Max
  <2> QED
    BY <2>4, <2>6
<1>8. last \in first..m /\ \A j \in first..last : b[j] \in DigitSet
  BY <1>3, <1>7, DigitsOk
<1> HIDE DEF last, G
<1>9. ds \in Seq(DigitSet)
  <2> DEFINE c == last - first + 1
             w == SubSeq(b, first, last)
  <2>1. first \in 1..(m + 1) /\ last \in 0..m /\ first <= last + 1 /\ c \in Nat
    BY <1>3, <1>5, <1>8
  <2>2. IsText(w, c) /\ \A i \in 1..c : w[i] = b[first + i - 1]
    BY <1>3, <2>1, PartOfText
  <2>3. \A i \in 1..c : first + i - 1 \in first..last
    BY <1>5, <1>8
  <2>4. \A i \in 1..c : w[i] \in DigitSet
    BY <1>8, <2>2, <2>3
  <2> HIDE DEF w, c
  <2>5. w \in [1..c -> DigitSet]
    BY <2>2, <2>4 DEF IsText
  <2>6. w \in Seq(DigitSet)
    BY <2>1, <2>5
  <2> QED
    BY <2>6 DEF w
<1> HIDE DEF ds
<1>10. Told(ds) \in Nat
  BY <1>9, ToldOk
<1> QED
  BY <1>10

\* A number that a type has.
LEMMA RangeOk ==
    ASSUME NEW t \in Numeric, NEW n \in VRange(t)
    PROVE  /\ n \in Int /\ Clipped(n, t) = n /\ Wrapped(n, t) = n
           /\ t \in {"_BYTE", "_UBYTE"} => Wrapped(n, "_WORD") = n
<1>1. /\ t \in DOMAIN Span /\ "_WORD" \in DOMAIN Span
      /\ Span[t] \in Nat \ {0} /\ Span["_WORD"] \in Nat \ {0}
      /\ Span[t] % 2 = 0 /\ Span["_WORD"] % 2 = 0
  BY ValuesAssumption DEF Numeric
<1>2. ASSUME NEW u \in {t, "_WORD"}
      PROVE  /\ u \in Unsigned => Lowest(u) = 0 /\ Highest(u) = Span[u] - 1
             /\ u \notin Unsigned => Lowest(u) = -(Span[u] \div 2) /\ Highest(u) = Span[u] \div 2 - 1
             /\ Lowest(u) \in Int /\ Highest(u) \in Int /\ Highest(u) = Lowest(u) + Span[u] - 1
  BY <1>1 DEF Lowest, Highest
<1>3. /\ n \in Int /\ Lowest(t) <= n /\ n <= Highest(t)
  <2>1. Lowest(t) \in Int /\ Highest(t) \in Int
    BY <1>2
  <2> QED
    BY <2>1 DEF VRange
<1>4. \A x \in Nat, y \in Nat \ {0} : x < y => x % y = x
  OBVIOUS
<1>5. ASSUME NEW u \in {t, "_WORD"}, Lowest(u) <= n, n <= Highest(u) PROVE Wrapped(n, u) = n
  <2> DEFINE x == n - Lowest(u)
  <2>1. Lowest(u) \in Int /\ Highest(u) \in Int /\ Highest(u) = Lowest(u) + Span[u] - 1
    BY <1>2
  <2>2. Span[u] \in Nat \ {0}
    BY <1>1
  <2>3. x \in Nat /\ x < Span[u] /\ Lowest(u) + x = n
    BY <1>3, <1>5, <2>1, <2>2
  <2> HIDE DEF x
  <2>4. x % Span[u] = x
    BY <1>4, <2>2, <2>3
  <2>5. Wrapped(n, u) = Lowest(u) + (x % Span[u])
    BY DEF Wrapped, x
  <2> QED
    BY <2>3, <2>4, <2>5
<1>6. Clipped(n, t) = n
  <2>1. ~(n < Lowest(t)) /\ ~(n > Highest(t))
    BY <1>2, <1>3
  <2> QED
    BY <2>1 DEF Clipped
<1>7. ASSUME t \in {"_BYTE", "_UBYTE"} PROVE Lowest("_WORD") <= n /\ n <= Highest("_WORD")
  <2>1. 2 * Span[t] <= Span["_WORD"]
    BY <1>1, <1>7, ValuesAssumption
  <2>2. /\ Lowest("_WORD") = -(Span["_WORD"] \div 2) /\ Highest("_WORD") = Span["_WORD"] \div 2 - 1
    BY <1>2 DEF Unsigned
  <2>3. CASE t = "_BYTE"
    <3>1. Lowest(t) = -(Span[t] \div 2) /\ Highest(t) = Span[t] \div 2 - 1
      BY <1>2, <2>3 DEF Unsigned
    <3> QED
      BY <1>1, <1>3, <2>1, <2>2, <3>1
  <2>4. CASE t = "_UBYTE"
    <3>1. Lowest(t) = 0 /\ Highest(t) = Span[t] - 1
      BY <1>2, <2>4 DEF Unsigned
    <3> QED
      BY <1>1, <1>3, <2>1, <2>2, <3>1
  <2> QED
    BY <1>7, <2>3, <2>4
<1> QED
  BY <1>3, <1>5, <1>6, <1>7

\* A number written as a text that is long enough is read from it again.
LEMMA NumberFromText ==
    ASSUME NEW t \in Numeric, NEW n \in VRange(t), NEW k \in Nat, Len(Decimal(n)) <= k
    PROVE  FromText(Padded(Decimal(n), k), t) = {[value |-> n, bad |-> FALSE]}
<1> DEFINE s == Padded(Decimal(n), k)
<1>1. /\ n \in Int /\ Clipped(n, t) = n /\ Wrapped(n, t) = n
      /\ t \in {"_BYTE", "_UBYTE"} => Wrapped(n, "_WORD") = n
  BY RangeOk
<1>2. Scanned(s) = {n} /\ Inked(s) # {}
  BY <1>1, ScanOk
<1> HIDE DEF s
<1>3. (CHOOSE m \in Scanned(s) : TRUE) = n
  BY <1>2
<1>4. t # "_LOGICAL"
  BY ValuesAssumption DEF Numeric
<1>5. Scanned(s) # {}
  BY <1>2
<1>6. FromText(s, t) = {[value |-> n, bad |-> FALSE]}
  <2> DEFINE m == CHOOSE j \in Scanned(s) : TRUE
             Good(v) == [value |-> v, bad |-> FALSE]
             Miss == [value |-> VBad(t), bad |-> TRUE]
  <2>1. FromText(s, t) = CASE t \in {"_BYTE", "_UBYTE"} ->
                       {IF Wrapped(m, "_WORD") \in VRange(t) THEN Good(Wrapped(m, "_WORD")) ELSE Miss}
                 [] t \in {"_WORD", "_UWORD", "_INTEGER"} -> {Good(Wrapped(m, t))}
                 [] OTHER -> {Good(Clipped(m, t))}
    BY <1>2, <1>4, <1>5 DEF FromText
  <2>2. m = n
    BY <1>3
  <2> HIDE DEF m
  <2> QED
    BY <1>1, <2>1, <2>2
<1> QED
  BY <1>6 DEF s

\* A logical value written as a text is read from it again.
LEMMA LogicalFromText ==
    ASSUME NEW b \in {0, 1}, NEW k \in Nat \ {0}
    PROVE  FromText(Padded(TextOf(b, "_LOGICAL"), k), "_LOGICAL") = {[value |-> b, bad |-> FALSE]}
<1> DEFINE L == TextOf(b, "_LOGICAL")
           s == Padded(L, k)
<1>1. 1 \in 1..k
  OBVIOUS
<1>2. L[1] = IF b = 1 THEN "T" ELSE "F"
  BY DEF TextOf, BadL
<1>3. 1 <= Len(L)
  BY DEF TextOf, BadL
<1> HIDE DEF L
<1>4. s[1] = L[1]
  BY <1>1, <1>3 DEF Padded
<1> HIDE DEF s
<1>5. FromText(s, "_LOGICAL") = {[value |-> IF s[1] \in {"T", "t", "Y", "y"} THEN 1 ELSE 0, bad |-> FALSE]}
  BY DEF FromText
<1> QED
  BY <1>2, <1>4, <1>5 DEF s, L

\* The last of some positions, if there is one.
LEMMA LastIfAny ==
    ASSUME NEW k \in Nat, NEW S \in SUBSET (1..k), NEW i \in S
    PROVE  Max({0} \cup S) \in 1..k /\ Max({0} \cup S) >= i
<1> DEFINE G == {0} \cup S
           m == Max(S)
<1>1. m \in S /\ \A y \in S : m >= y
  BY LastPosition
<1> HIDE DEF m
<1>2. m \in 1..k /\ m >= i
  BY <1>1
<1>3. m \in G /\ \A y \in G : y \in Int /\ m >= y
  BY <1>1, <1>2
<1> HIDE DEF G
<1>4. Max(G) = m
  <2>1. \A x \in G : (\A y \in G : x >= y) => x = m
    BY <1>2, <1>3
  <2> QED
    BY <1>3, <2>1 DEF Max
<1> QED
  BY <1>2, <1>4 DEF G

\* Nothing but blanks is after the end of a text without them.
LEMMA TrimmedOk ==
    ASSUME NEW k \in Nat, NEW s, IsText(s, k), NEW i \in Inked(s)
    PROVE  Len(Trimmed(s)) \in Nat /\ i <= Len(Trimmed(s))
<1> DEFINE S == Inked(s)
           m == Max({0} \cup S)
<1>1. DOMAIN s = 1..k
  BY DEF IsText
<1>2. S \in SUBSET (1..k)
  BY <1>1 DEF Inked
<1>21. i \in S
  OBVIOUS
<1> HIDE DEF S
<1>3. m \in 1..k /\ m >= i
  BY <1>2, <1>21, LastIfAny
<1> HIDE DEF m
<1>4. Len(SubSeq(s, 1, m)) = m
  <2>1. 1 \in 1..(k + 1) /\ m \in 0..k /\ 1 <= m + 1 /\ m - 1 + 1 = m
    BY <1>3
  <2>2. Len(SubSeq(s, 1, m)) = m - 1 + 1
    BY <2>1, PartOfText
  <2> QED
    BY <2>1, <2>2
<1>5. Len(Trimmed(s)) = m
  BY <1>4 DEF Trimmed, m, S
<1> QED
  BY <1>3, <1>5

\* The types that values are written from.
GivenType == {T(name) : name \in Numeric \cup {"_LOGICAL"}} \cup {Char(n) : n \in Nat \ {0}}

\* A value of a type.
IsValue(v, type) ==
    IF type.name = "_CHAR" THEN IsText(v, type.len)
    ELSE IF type.name = "_LOGICAL" THEN v \in {0, 1, BadL}
    ELSE v \in VRange(type.name)

LEMMA GivenNames ==
    ASSUME NEW type \in GivenType
    PROVE  \/ type.name = "_CHAR" /\ type.len \in Nat \ {0}
           \/ type.name = "_LOGICAL"
           \/ type.name \in Numeric /\ type.name # "_CHAR" /\ type.name # "_LOGICAL"
<1>1. \A name \in Numeric : name # "_CHAR" /\ name # "_LOGICAL"
  BY ValuesAssumption DEF Numeric
<1> QED
  BY <1>1 DEF GivenType, T, Char

\* The bounds of a numeric type.
LEMMA BoundsOk ==
    ASSUME NEW t \in Numeric
    PROVE  /\ Lowest(t) \in Int /\ Highest(t) \in Int /\ Span[t] \in Nat \ {0}
           /\ Highest(t) = Lowest(t) + Span[t] - 1 /\ Lowest(t) <= 0 /\ 1 <= Highest(t)
<1>1. Span[t] \in Nat \ {0, 2} /\ Span[t] % 2 = 0
  BY ValuesAssumption DEF Numeric
<1>2. CASE t \in Unsigned
  BY <1>1, <1>2 DEF Lowest, Highest
<1>3. CASE t \notin Unsigned
  BY <1>1, <1>3 DEF Lowest, Highest
<1> QED
  BY <1>2, <1>3

\* What a conversion to a numeric type can make of a number is one of that type.
LEMMA InRange ==
    ASSUME NEW t \in Numeric
    PROVE  /\ \A n \in Int : Clipped(n, t) \in VRange(t) /\ Wrapped(n, t) \in VRange(t)
           /\ VBad(t) \in VRange(t) /\ Junk(t) \subseteq VRange(t)
<1> DEFINE lo == Lowest(t)
           hi == Highest(t)
           span == Span[t]
<1>1. /\ lo \in Int /\ hi \in Int /\ span \in Nat \ {0}
      /\ hi = lo + span - 1 /\ lo <= 0 /\ 1 <= hi
  BY BoundsOk
<1>2. VRange(t) = lo..hi
  BY DEF VRange
<1>3. \A n : Clipped(n, t) = IF n < lo THEN lo ELSE IF n > hi THEN hi ELSE n
  BY DEF Clipped
<1>4. \A n : Wrapped(n, t) = lo + ((n - lo) % span)
  BY DEF Wrapped
<1>5. VBad(t) \in {lo, hi} /\ Junk(t) = {lo, 0, hi}
  BY DEF VBad, Junk
<1> HIDE DEF lo, hi, span
<1>6. ASSUME NEW n \in Int PROVE Clipped(n, t) \in VRange(t) /\ Wrapped(n, t) \in VRange(t)
  <2>1. Clipped(n, t) \in lo..hi
    BY <1>1, <1>3
  <2>2. (n - lo) % span \in 0..(span - 1)
    BY <1>1
  <2>3. Wrapped(n, t) \in lo..hi
    BY <1>1, <1>4, <2>2
  <2> QED
    BY <1>2, <2>1, <2>3
<1>7. VBad(t) \in lo..hi /\ Junk(t) \subseteq lo..hi
  BY <1>1, <1>5
<1> QED
  BY <1>2, <1>6, <1>7

\* So is what is made of a text, and of a value of any type; logical values
\* become 0 or 1.
LEMMA FromTextFits ==
    ASSUME NEW k \in Nat, NEW s, IsText(s, k), NEW t \in Numeric \cup {"_LOGICAL"},
           NEW r \in FromText(s, t)
    PROVE  IF t = "_LOGICAL" THEN r.value \in {0, 1} ELSE r.value \in VRange(t)
<1> DEFINE Good(v) == [value |-> v, bad |-> FALSE]
           Miss == [value |-> VBad(t), bad |-> TRUE]
<1>1. CASE t = "_LOGICAL"
  BY <1>1 DEF FromText
<1>2. CASE t # "_LOGICAL"
  <2>1. t \in Numeric
    BY <1>2
  <2>2. /\ \A n \in Int : Clipped(n, t) \in VRange(t) /\ Wrapped(n, t) \in VRange(t)
        /\ VBad(t) \in VRange(t) /\ Junk(t) \subseteq VRange(t)
    BY <2>1, InRange
  <2>3. CASE Inked(s) = {}
    <3>1. r \in {Good(v) : v \in Junk(t)} \cup {Miss}
      BY <1>2, <2>3 DEF FromText
    <3> QED
      BY <1>2, <2>2, <3>1
  <2>4. CASE Inked(s) # {} /\ Scanned(s) = {}
    <3>1. r = Miss
      BY <1>2, <2>4 DEF FromText
    <3> QED
      BY <1>2, <2>2, <3>1
  <2>5. CASE Inked(s) # {} /\ Scanned(s) # {}
    <3> DEFINE n == CHOOSE m \in Scanned(s) : TRUE
    <3>1. n \in Int
      BY <2>5, ScannedOk
    <3>2. r \in CASE t \in {"_BYTE", "_UBYTE"} ->
                       {IF Wrapped(n, "_WORD") \in VRange(t) THEN Good(Wrapped(n, "_WORD")) ELSE Miss}
                 [] t \in {"_WORD", "_UWORD", "_INTEGER"} -> {Good(Wrapped(n, t))}
                 [] OTHER -> {Good(Clipped(n, t))}
      BY <1>2, <2>5 DEF FromText
    <3> HIDE DEF n
    <3>3. \/ r.value \in {VBad(t), Wrapped(n, t), Clipped(n, t)}
          \/ r.value = Wrapped(n, "_WORD") /\ Wrapped(n, "_WORD") \in VRange(t)
      <4>1. CASE t \in {"_BYTE", "_UBYTE"}
        BY <3>2, <4>1
      <4>2. CASE t \notin {"_BYTE", "_UBYTE"} /\ t \in {"_WORD", "_UWORD", "_INTEGER"}
        BY <3>2, <4>2
      <4>3. CASE t \notin {"_BYTE", "_UBYTE"} /\ t \notin {"_WORD", "_UWORD", "_INTEGER"}
        BY <3>2, <4>3
      <4> QED
        BY <4>1, <4>2, <4>3
    <3> QED
      BY <1>2, <2>2, <3>1, <3>3
  <2> QED
    BY <2>3, <2>4, <2>5
<1> QED
  BY <1>1, <1>2

LEMMA ConvertedFits ==
    ASSUME NEW from \in GivenType, NEW to \in VType, NEW v, IsValue(v, from),
           NEW r \in ConvertedOne(v, from, to)
    PROVE  /\ to.name = "_LOGICAL" => r.value \in {0, 1}
           /\ to.name \in Numeric => r.value \in VRange(to.name)
<1> DEFINE Good(x) == [value |-> x, bad |-> FALSE]
<1>1. \A name \in Numeric : name # "_CHAR" /\ name # "_LOGICAL"
  BY ValuesAssumption DEF Numeric
<1>2. CASE to.name = "_LOGICAL"
  <2>1. CASE from.name = "_CHAR"
    <3>1. r \in FromText(v, "_LOGICAL") /\ IsText(v, from.len) /\ from.len \in Nat
      BY <1>1, <1>2, <2>1, GivenNames DEF ConvertedOne, WhichConversion, IsValue
    <3> QED
      BY <1>1, <1>2, <3>1, FromTextFits
  <2>2. CASE from.name = "_LOGICAL"
    BY <1>1, <1>2, <2>2 DEF ConvertedOne, WhichConversion, H5Converted, FromLogical
  <2>3. CASE from.name \in Numeric
    <3>1. v \in Int
      BY <1>1, <2>3, RangeOk DEF IsValue
    <3>2. r = Good(v % 2)
      BY <1>1, <1>2, <2>3 DEF ConvertedOne, WhichConversion, ToLogical
    <3> QED
      BY <1>1, <1>2, <3>1, <3>2
  <2> QED
    BY <2>1, <2>2, <2>3, GivenNames
<1>3. CASE to.name \in Numeric
  <2>0. to.name # "_CHAR" /\ to.name # "_LOGICAL"
    BY <1>1, <1>3
  <2>1. CASE from.name = "_CHAR"
    <3>1. r \in FromText(v, to.name) /\ IsText(v, from.len) /\ from.len \in Nat
      BY <2>0, <2>1, GivenNames DEF ConvertedOne, WhichConversion, IsValue
    <3> QED
      BY <1>3, <2>0, <3>1, FromTextFits
  <2>2. CASE from.name = "_LOGICAL"
    <3>1. r \in {Good(0), Good(1)}
      BY <2>0, <2>2 DEF ConvertedOne, WhichConversion, FromLogical
    <3>2. 0 \in VRange(to.name) /\ 1 \in VRange(to.name)
      BY <1>3, BoundsOk DEF VRange
    <3> QED
      BY <2>0, <3>1, <3>2
  <2>3. CASE from.name \in Numeric
    <3>1. v \in Int
      BY <1>1, <2>3, RangeOk DEF IsValue
    <3>2. r = Good(Clipped(v, to.name))
      BY <1>1, <2>0, <2>3 DEF ConvertedOne, WhichConversion, H5Converted
    <3> QED
      BY <1>3, <2>0, <3>1, <3>2, InRange
  <2> QED
    BY <2>1, <2>2, <2>3, GivenNames
<1> QED
  BY <1>2, <1>3

\* A text that an object of texts can hold comes back.
LEMMA TextComesBack ==
    ASSUME NEW j \in Nat \ {0}, NEW k \in Nat \ {0}, k <= j, NEW v, IsText(v, j), Len(Trimmed(v)) <= k
    PROVE  Padded(Padded(v, k), j) = v
<1> DEFINE w == Padded(v, k)
<1>1. IsText(w, k) /\ \A i \in 1..k : w[i] = IF i <= j THEN v[i] ELSE " "
  BY PaddedOk
<1> HIDE DEF w
<1>2. IsText(Padded(w, j), j) /\ \A i \in 1..j : Padded(w, j)[i] = IF i <= k THEN w[i] ELSE " "
  BY ZenonT(40), <1>1, PaddedOk
<1>3. ASSUME NEW i \in 1..j PROVE Padded(w, j)[i] = v[i]
  <2>1. CASE i <= k
    <3>1. i \in 1..k /\ i <= j
      BY <2>1
    <3> QED
      BY <1>1, <1>2, <2>1, <3>1
  <2>2. CASE ~(i <= k)
    <3>1. i \notin Inked(v)
      BY <2>2, TrimmedOk
    <3>2. DOMAIN v = 1..j
      BY DEF IsText
    <3>3. v[i] = " "
      BY <3>1, <3>2 DEF Inked
    <3> QED
      BY <1>2, <2>2, <3>3
  <2> QED
    BY <2>1, <2>2
<1>4. Padded(w, j) = v
  BY <1>2, <1>3, SameText
<1> QED
  BY <1>4 DEF w

\* VRoundTrip for one value.
LEMMA ValueComesBack ==
    ASSUME NEW from \in GivenType, NEW to \in GivenType, NEW v, IsValue(v, from),
           Storable(to, v, from),
           ~(to.name = "_CHAR" /\ from.name = "_CHAR" /\ from.len < to.len),
           NEW r \in ConvertedOne(v, from, to), NEW q \in ConvertedOne(r.value, to, from)
    PROVE  q.value = v
<1>1. CASE from.name = "_CHAR" /\ to.name = "_CHAR"
  <2>1. from.len \in Nat \ {0} /\ to.len \in Nat \ {0} /\ to.len <= from.len
    BY <1>1, GivenNames, ValuesAssumption DEF Numeric
  <2>2. IsText(v, from.len) /\ Len(Trimmed(v)) <= to.len
    BY <1>1 DEF IsValue, Storable
  <2>3. r.value = Padded(v, to.len) /\ q.value = Padded(r.value, from.len)
    BY <1>1 DEF ConvertedOne, WhichConversion, H5Converted
  <2> QED
    BY <2>1, <2>2, <2>3, TextComesBack
<1>2. CASE from.name = "_CHAR" /\ to.name = "_LOGICAL"
  <2>1. from.len \in Nat \ {0}
    BY <1>2, GivenNames, ValuesAssumption DEF Numeric
  <2>2. PICK b \in {0, 1} : v = Padded(TextOf(b, "_LOGICAL"), from.len)
    BY <1>2 DEF Storable
  <2>3. r \in FromText(v, "_LOGICAL") /\ q.value = Padded(TextOf(r.value, "_LOGICAL"), from.len)
    BY <1>2 DEF ConvertedOne, WhichConversion
  <2>4. r.value = b
    BY <2>1, <2>2, <2>3, LogicalFromText
  <2> QED
    BY <2>2, <2>3, <2>4
<1>3. CASE from.name = "_CHAR" /\ to.name \in Numeric
  <2>0. to.name # "_CHAR" /\ to.name # "_LOGICAL"
    BY <1>3, ValuesAssumption DEF Numeric
  <2>1. from.len \in Nat \ {0}
    BY <1>3, GivenNames, ValuesAssumption DEF Numeric
  <2>2. PICK n \in VRange(to.name) : v = Padded(Decimal(n), from.len) /\ Len(Decimal(n)) <= from.len
    BY <1>3, <2>0 DEF Storable
  <2>3. r \in FromText(v, to.name) /\ q.value = Padded(Decimal(r.value), from.len)
    BY <1>3, <2>0 DEF ConvertedOne, WhichConversion, TextOf
  <2>4. r.value = n
    BY <1>3, <2>1, <2>2, <2>3, NumberFromText
  <2> QED
    BY <2>2, <2>3, <2>4
<1>4. CASE from.name = "_LOGICAL"
  <2>1. v \in {0, 1}
    BY <1>4 DEF IsValue, Storable
  <2>2. CASE to.name = "_CHAR"
    <3>1. to.len \in Nat \ {0}
      BY <2>2, GivenNames, ValuesAssumption DEF Numeric
    <3>2. r.value = Padded(TextOf(v, "_LOGICAL"), to.len) /\ q \in FromText(r.value, "_LOGICAL")
      BY <1>4, <2>2 DEF ConvertedOne, WhichConversion
    <3> QED
      BY <2>1, <3>1, <3>2, LogicalFromText
  <2>3. CASE to.name = "_LOGICAL"
    <3>1. r.value = FromLogical(v) /\ q.value = FromLogical(r.value)
      BY <1>4, <2>3 DEF ConvertedOne, WhichConversion, H5Converted
    <3> QED
      BY <2>1, <3>1 DEF FromLogical
  <2>4. CASE to.name \in Numeric
    <3>0. to.name # "_CHAR" /\ to.name # "_LOGICAL"
      BY <2>4, ValuesAssumption DEF Numeric
    <3>1. r.value = FromLogical(v) /\ q.value = ToLogical(r.value)
      BY <1>4, <3>0 DEF ConvertedOne, WhichConversion
    <3> QED
      BY <2>1, <3>1 DEF FromLogical, ToLogical
  <2> QED
    BY <2>2, <2>3, <2>4, GivenNames
<1>5. CASE from.name \in Numeric
  <2>0. from.name # "_CHAR" /\ from.name # "_LOGICAL"
    BY <1>5, ValuesAssumption DEF Numeric
  <2>1. v \in VRange(from.name)
    BY <2>0 DEF IsValue
  <2>2. CASE to.name = "_CHAR"
    <3>1. to.len \in Nat \ {0}
      BY <2>2, GivenNames, ValuesAssumption DEF Numeric
    <3>2. Len(Decimal(v)) <= to.len
      BY <2>0, <2>2 DEF Storable
    <3>3. r.value = Padded(Decimal(v), to.len) /\ q \in FromText(r.value, from.name)
      BY <2>0, <2>2 DEF ConvertedOne, WhichConversion, TextOf
    <3> QED
      BY <1>5, <2>1, <3>1, <3>2, <3>3, NumberFromText
  <2>3. CASE to.name = "_LOGICAL"
    <3>1. v \in {0, 1}
      BY <2>0, <2>3 DEF Storable
    <3>2. r.value = ToLogical(v) /\ q.value = FromLogical(r.value)
      BY <2>0, <2>3 DEF ConvertedOne, WhichConversion
    <3> QED
      BY <3>1, <3>2 DEF FromLogical, ToLogical
  <2>4. CASE to.name \in Numeric
    <3>0. to.name # "_CHAR" /\ to.name # "_LOGICAL"
      BY <2>4, ValuesAssumption DEF Numeric
    <3>1. v \in VRange(to.name)
      BY <2>0, <3>0 DEF Storable
    <3>2. r.value = Clipped(v, to.name) /\ q.value = Clipped(r.value, from.name)
      BY <2>0, <3>0 DEF ConvertedOne, WhichConversion, H5Converted
    <3>3. Clipped(v, to.name) = v /\ Clipped(v, from.name) = v
      BY <1>5, <2>1, <2>4, <3>1, RangeOk
    <3> QED
      BY <3>2, <3>3
  <2> QED
    BY <2>2, <2>3, <2>4, GivenNames
<1> QED
  BY <1>1, <1>2, <1>3, <1>4, <1>5, GivenNames

-----------------------------------------------------------------------------
(* Values: the routines *)

\* The values of an object of type "type", if they are numbers or logical values.
Fits(vs, type) ==
    \A i \in DOMAIN vs :
        /\ i \in Int
        /\ type.name = "_LOGICAL" => vs[i] \in {0, 1}
        /\ type.name \in Numeric => vs[i] \in VRange(type.name)

\* What every state has: a type that exists, values of that type, and no overrun
\* of a buffer but that of the texts that datPut makes.
VInv == vtype \in VType /\ (vdata # Unwritten => Fits(vdata, vtype)) /\ VBufferHolds

\* Values ws of one type are what a conversion makes of vs, of another.
Image(vs, from, to, ws) ==
    /\ ws = [i \in DOMAIN vs |-> ws[i]]
    /\ \A i \in DOMAIN vs : \E r \in ConvertedOne(vs[i], from, to) : ws[i] = r.value

\* Values that a program writes.
OfType(type, vs) ==
    /\ type \in GivenType
    /\ vs = [i \in DOMAIN vs |-> vs[i]]
    /\ \A i \in DOMAIN vs : i \in Int /\ IsValue(vs[i], type)

\* Values read from the object, but for texts that are cut.
ReadAs(type, vs) ==
    \/ vtype.name = "_CHAR" /\ type.name = "_CHAR" /\ type.len < vtype.len
    \/ Image(vdata, vtype, type, vs)

\* A call that writes nothing, into the object or its description.
ReadsOnly ==
    /\ UNCHANGED <<vtype, vshape, vdata, vput>> /\ voverrun' \notin {"temporary", "own"}
    /\ \/ vgot' \in {vgot, Nothing}
       \/ vdata # Unwritten /\ ReadAs(vgot'.type, vgot'.values)

\* The names of the types.
LEMMA TypeNames ==
    ASSUME NEW type \in VType
    PROVE  \/ type.name \in {"_BYTE", "_UBYTE", "_WORD", "_UWORD", "_INTEGER", "_INT64", "_REAL", "_DOUBLE", "_LOGICAL"}
           \/ type.name = "_CHAR" /\ type.len \in Nat
<1>1. CASE \E name \in Numeric \cup {"_LOGICAL"} : type = T(name)
  BY <1>1, ValuesAssumption DEF T, Numeric
<1>2. CASE \E n \in CharLen : type = Char(n)
  BY <1>2, ValuesAssumption DEF Char
<1> QED
  BY <1>1, <1>2 DEF VType

\* The size that datLen tells is that of a value in memory, also of a logical
\* one, which is smaller in the file.
LEMMA LengthInMemory ==
    ASSUME NEW type \in VType
    PROVE  DatLen(type) = H5Type(type, TRUE).size /\ H5Type(type, TRUE).size \in Nat
<1> DEFINE h == H5Type(type, FALSE)
<1>1. CASE type.name = "_LOGICAL"
  <2>1. h = [class |-> "BITFIELD", sign |-> FALSE, size |-> 1]
    BY <1>1 DEF H5Type, Unsigned
  <2>2. H5Type(type, TRUE).size = 4
    BY <1>1 DEF H5Type, Unsigned
  <2> HIDE DEF h
  <2>3. h.class = "BITFIELD"
    BY <2>1
  <2>4. HdsType(h) = "_LOGICAL"
    BY <2>3 DEF HdsType
  <2>5. [h EXCEPT !.size = 4].size = 4
    BY <2>1
  <2>6. Native2MemType(h).size = 4
    BY <2>4, <2>5 DEF Native2MemType
  <2>7. DatLen(type) = Native2MemType(h).size
    BY DEF DatLen, h
  <2>8. DatLen(type) = 4
    BY <2>6, <2>7, Zenon
  <2>9. DatLen(type) = H5Type(type, TRUE).size
    BY <2>2, <2>8, Zenon
  <2>10. 4 \in Nat
    OBVIOUS
  <2>11. H5Type(type, TRUE).size \in Nat
    BY <2>2, <2>10, Zenon
  <2> QED
    BY <2>9, <2>11, Zenon
<1>2. CASE type.name = "_CHAR"
  <2>1. h = [class |-> "STRING", sign |-> FALSE, size |-> type.len]
    BY <1>2 DEF H5Type, Unsigned
  <2>2. H5Type(type, TRUE).size = type.len
    BY <1>2 DEF H5Type, Unsigned
  <2>3. type.len \in Nat
    BY <1>2, TypeNames
  <2> HIDE DEF h
  <2>4. h.class = "STRING" /\ h.size = type.len
    BY <2>1
  <2>5. HdsType(h) = "_CHAR"
    BY <2>4 DEF HdsType
  <2>6. Native2MemType(h).size = type.len
    BY <2>4, <2>5 DEF Native2MemType
  <2> QED
    BY <2>2, <2>3, <2>6 DEF DatLen, h
<1>3. CASE type.name \in {"_REAL", "_DOUBLE"}
  <2>1. h.class = "FLOAT" /\ h = H5Type(type, TRUE) /\ h.size \in Nat
    BY <1>3 DEF H5Type, Unsigned
  <2>2. HdsType(h) # "_LOGICAL"
    BY <2>1 DEF HdsType
  <2> QED
    BY <2>1, <2>2 DEF DatLen, Native2MemType
<1>4. CASE type.name \in Unsigned
  <2>1. h.class = "INTEGER" /\ ~h.sign /\ h = H5Type(type, TRUE) /\ h.size \in Nat
    BY <1>4 DEF H5Type, Unsigned
  <2>2. HdsType(h) # "_LOGICAL"
    BY <2>1 DEF HdsType
  <2> QED
    BY <2>1, <2>2 DEF DatLen, Native2MemType
<1>5. CASE type.name \in {"_BYTE", "_WORD", "_INTEGER", "_INT64"}
  <2>1. h.class = "INTEGER" /\ h.sign /\ h = H5Type(type, TRUE) /\ h.size \in {1, 2, 4, 8}
    BY <1>5 DEF H5Type, Unsigned
  <2>2. /\ H5Type(T("_BYTE"), TRUE).size = 1 /\ H5Type(T("_WORD"), TRUE).size = 2
        /\ H5Type(T("_INTEGER"), TRUE).size = 4 /\ H5Type(T("_INT64"), TRUE).size = 8
    BY DEF H5Type, Unsigned, T
  <2>3. \E t \in {"_BYTE", "_WORD", "_INTEGER", "_INT64"} : H5Type(T(t), TRUE).size = h.size
    BY <2>1, <2>2
  <2>4. HdsType(h) = CHOOSE t \in {"_BYTE", "_WORD", "_INTEGER", "_INT64"} :
                        H5Type(T(t), TRUE).size = h.size
    BY <2>1 DEF HdsType
  <2>5. HdsType(h) \in {"_BYTE", "_WORD", "_INTEGER", "_INT64"}
    BY <2>3, <2>4
  <2>6. Native2MemType(h) = h
    BY <2>5 DEF Native2MemType
  <2>7. DatLen(type) = h.size
    BY <2>6 DEF DatLen
  <2>8. h.size = H5Type(type, TRUE).size
    BY <2>1, Zenon
  <2>9. \A x \in {1, 2, 4, 8} : x \in Nat
    OBVIOUS
  <2>10. h.size \in Nat
    BY <2>1, <2>9, Zenon
  <2> QED
    BY <2>7, <2>8, <2>10, Zenon
<1> QED
  BY <1>1, <1>2, <1>3, <1>4, <1>5, TypeNames DEF Unsigned

\* A number has no longer text than the lowest or the highest of its type.
LEMMA DecimalFits ==
    ASSUME NEW t \in Numeric, NEW n \in VRange(t)
    PROVE  /\ Len(Decimal(Lowest(t))) \in Nat /\ Len(Decimal(Highest(t))) \in Nat
           /\ \/ Len(Decimal(n)) <= Len(Decimal(Lowest(t)))
              \/ Len(Decimal(n)) <= Len(Decimal(Highest(t)))
<1> DEFINE L(m) == Len(Digits(m)[m])
<1>1. /\ Lowest(t) \in Int /\ Highest(t) \in Nat /\ Lowest(t) <= 0
      /\ n \in Int /\ Lowest(t) <= n /\ n <= Highest(t)
  BY BoundsOk DEF VRange
<1>2. \A a, b \in Nat : a <= b => L(a) \in Nat /\ L(b) \in Nat /\ L(a) <= L(b)
  BY DigitsGrow
<1>3. ASSUME NEW m \in Nat PROVE L(m) \in Nat /\ Len(Decimal(m)) = L(m)
  <2>1. Decimal(m) = Digits(m)[m]
    BY DEF Decimal
  <2> QED
    BY <1>2, <2>1
<1>4. ASSUME NEW m \in Nat \ {0} PROVE Len(Decimal(-m)) = L(m) + 1
  <2> DEFINE ds == Digits(m)[m]
  <2>1. Spells(ds, m)
    <3>1. m \in Nat /\ m \in 0..m
      OBVIOUS
    <3> QED
      BY <3>1, DigitsTell
  <2>2. Decimal(-m) = <<"-">> \o ds
    <3>1. -m < 0 /\ -(-m) = m
      OBVIOUS
    <3> QED
      BY <3>1 DEF Decimal
  <2> HIDE DEF ds
  <2>3. ds \in Seq(DigitSet \cup {"-"}) /\ <<"-">> \in Seq(DigitSet \cup {"-"})
    BY <2>1 DEF Spells
  <2>4. Len(<<"-">> \o ds) = Len(ds) + 1
    BY <2>3
  <2> QED
    BY <2>2, <2>4 DEF ds
<1> HIDE DEF L
<1>5. Len(Decimal(Lowest(t))) \in Nat
  <2>1. CASE Lowest(t) = 0
    BY <1>3, <2>1
  <2>2. CASE Lowest(t) # 0
    <3>1. -Lowest(t) \in Nat \ {0} /\ -(-Lowest(t)) = Lowest(t)
      BY <1>1, <2>2
    <3>2. Len(Decimal(-(-Lowest(t)))) = L(-Lowest(t)) + 1 /\ L(-Lowest(t)) \in Nat
      BY <1>3, <1>4, <3>1
    <3> QED
      BY <3>1, <3>2
  <2> QED
    BY <2>1, <2>2
<1>6. Len(Decimal(Highest(t))) \in Nat
  BY <1>1, <1>3
<1>7. CASE n >= 0
  <2>1. n \in Nat /\ L(n) <= L(Highest(t))
    BY <1>1, <1>2, <1>7
  <2> QED
    BY <1>1, <1>3, <1>5, <1>6, <2>1
<1>8. CASE ~(n >= 0)
  <2> DEFINE a == -n
             b == -Lowest(t)
  <2>1. a \in Nat \ {0} /\ b \in Nat \ {0} /\ a <= b /\ -a = n /\ -b = Lowest(t)
    BY <1>1, <1>8
  <2> HIDE DEF a, b
  <2>2. L(a) \in Nat /\ L(b) \in Nat /\ L(a) <= L(b)
    BY <1>2, <2>1
  <2>3. Len(Decimal(n)) = L(a) + 1 /\ Len(Decimal(Lowest(t))) = L(b) + 1
    BY <1>4, <2>1
  <2> QED
    BY <1>5, <1>6, <2>2, <2>3
<1> QED
  BY <1>7, <1>8

\* The text of a number has a length.
LEMMA DecimalLength == ASSUME NEW v \in Int PROVE Len(Decimal(v)) \in Nat
<1>1. PICK ds, p : IsNumeral(Decimal(v), v, ds, p)
  BY DecimalOk
<1> DEFINE k == Len(ds) + p - 1
           w == Decimal(v)
<1>2. IsText(w, k) /\ k \in Nat
  BY <1>1 DEF IsNumeral, IsText
<1> HIDE DEF k, w
<1>3. Len(w) = k
  BY <1>2, PaddedOk
<1> QED
  BY <1>2, <1>3 DEF w

\* What datClen tells is enough for the text of any value of the type.
LEMMA ClenOk ==
    ASSUME NEW type \in VType
    PROVE  /\ DatClen(type) \in Nat
           /\ type.name = "_LOGICAL" =>
                 \A v \in {0, 1} : Len(TextOf(v, type.name)) <= DatClen(type)
           /\ type.name \in Numeric =>
                 \A v \in VRange(type.name) : Len(TextOf(v, type.name)) <= DatClen(type)
<1>1. \A name \in Numeric : name # "_CHAR" /\ name # "_LOGICAL"
  BY ValuesAssumption DEF Numeric
<1>2. CASE type.name = "_CHAR"
  <2>1. DatClen(type) = type.len /\ type.len \in Nat
    BY <1>2, TypeNames DEF DatClen
  <2> QED
    BY <1>1, <1>2, <2>1
<1>3. CASE type.name = "_LOGICAL"
  <2>1. DatClen(type) = 5
    BY <1>3 DEF DatClen
  <2>2. \A v \in {0, 1} : Len(TextOf(v, type.name)) <= 5
    BY <1>3 DEF TextOf, BadL
  <2> QED
    BY <1>1, <1>3, <2>1, <2>2
<1>4. CASE type.name \in Numeric
  <2> DEFINE t == type.name
             lo == Len(Decimal(Lowest(t)))
             hi == Len(Decimal(Highest(t)))
  <2>1. t # "_CHAR" /\ t # "_LOGICAL"
    BY <1>1, <1>4
  <2>2. DatClen(type) = Max({lo, hi})
    BY <2>1 DEF DatClen
  <2>3. 0 \in VRange(t)
    BY <1>4, BoundsOk DEF VRange
  <2>4. lo \in Nat /\ hi \in Nat
    BY <1>4, <2>3, DecimalFits
  <2>5. \A v \in VRange(t) : Len(Decimal(v)) <= lo \/ Len(Decimal(v)) <= hi
    BY <1>4, DecimalFits
  <2>6. \A v : TextOf(v, t) = Decimal(v)
    BY <2>1 DEF TextOf
  <2> HIDE DEF lo, hi
  <2>7. Max({lo, hi}) \in {lo, hi} /\ Max({lo, hi}) >= lo /\ Max({lo, hi}) >= hi
    <3> DEFINE S == {lo, hi}
    <3>1. \E x \in S : \A y \in S : x >= y
      BY <2>4
    <3>2. Max(S) \in S /\ \A y \in S : Max(S) >= y
      <4> HIDE DEF S
      <4> QED
        BY <3>1 DEF Max
    <3> QED
      BY <3>2
  <2>8. ASSUME NEW v \in VRange(t) PROVE Len(TextOf(v, t)) <= DatClen(type)
    <3> DEFINE l == Len(Decimal(v))
    <3>1. l \in Nat
      BY <1>4, RangeOk, DecimalLength
    <3>2. l <= lo \/ l <= hi
      BY <2>5
    <3> HIDE DEF l
    <3>3. l <= Max({lo, hi})
      BY <2>4, <2>7, <3>1, <3>2
    <3> QED
      BY <2>2, <2>6, <3>3 DEF l
  <2> QED
    BY <1>4, <2>1, <2>2, <2>4, <2>7, <2>8
<1> QED
  BY <1>1, <1>2, <1>3, <1>4, TypeNames, ValuesAssumption DEF VType, T, Char, Numeric

\* So a conversion runs over the end of a buffer only if it makes a text that is
\* longer than the space for it, of a value that is none.
LEMMA NoOverrun ==
    ASSUME VInv, NEW vs, NEW from, NEW to, NEW texts, Overrun(vs, from, to, texts) # "none",
           to.name = "_CHAR" => to.len \in Nat,
           \A i \in DOMAIN vs : i \in Int
    PROVE  /\ Overrun(vs, from, to, texts) = texts
           /\ from.name # "_CHAR" /\ to.name = "_CHAR"
           /\ \E i \in DOMAIN vs : ~(Len(TextOf(vs[i], from.name)) <= to.len)
<1>1. DatLen(vtype) = H5Type(vtype, TRUE).size /\ H5Type(vtype, TRUE).size \in Nat
  BY LengthInMemory DEF VInv
<1>2. ASSUME NEW x, NEW y, x = y, y \in Nat PROVE ~(x < y)
  BY <1>2
<1>3. ~(DatLen(vtype) < H5Type(vtype, TRUE).size)
  BY <1>1, <1>2
<1>4. /\ Overrun(vs, from, to, texts) = texts /\ to.name = "_CHAR"
      /\ WhichConversion(from.name, to.name) # "none"
      /\ \E i \in DOMAIN vs : \A j \in DOMAIN vs :
            (i - 1) * to.len + Len(TextOf(vs[i], from.name)) > j * to.len
  BY <1>3 DEF Overrun
<1>5. from.name # "_CHAR"
  BY <1>4 DEF WhichConversion
<1>6. PICK i \in DOMAIN vs : (i - 1) * to.len + Len(TextOf(vs[i], from.name)) > i * to.len
  BY <1>4
<1>7. ASSUME NEW n \in Int, NEW l \in Nat, NEW m, m <= l, m \in Int PROVE ~((n - 1) * l + m > n * l)
  BY <1>7
<1>8. ~(Len(TextOf(vs[i], from.name)) <= to.len)
  BY <1>4, <1>6, <1>7
<1> QED
  BY <1>4, <1>5, <1>8

\* A call that stores values of the type that the object has, and reports no error.
Writes ==
    /\ UNCHANGED <<vtype, vshape>> /\ vstat' \in {"OK", "TRUNC"}
    /\ vgot' = Nothing
    /\ voverrun' # "own"
    /\ voverrun' = "temporary" =>
          /\ vtype.name = "_CHAR"
          /\ \E i \in DOMAIN vput'.values : Len(TextOf(vput'.values[i], vput'.type.name)) > vtype.len
    /\ OfType(vput'.type, vput'.values)
    /\ Image(vput'.values, vput'.type, vtype, vdata')

\* A call that makes the object anew.
Remakes ==
    /\ vtype' \in VType
    /\ vdata' = Unwritten
    /\ vgot' = Nothing
    /\ vstat' = "OK" /\ voverrun' = "none"

\* The text of a number or a logical value has a length.
LEMMA TextLength ==
    ASSUME NEW type \in GivenType, type.name # "_CHAR", NEW v, IsValue(v, type)
    PROVE  Len(TextOf(v, type.name)) \in Nat
<1>1. CASE type.name = "_LOGICAL"
  BY <1>1 DEF IsValue, TextOf, BadL
<1>2. CASE type.name \in Numeric /\ type.name # "_LOGICAL"
  <2>1. TextOf(v, type.name) = Decimal(v) /\ v \in VRange(type.name)
    BY <1>2 DEF TextOf, IsValue
  <2> QED
    BY <1>2, <2>1, RangeOk, DecimalLength
<1> QED
  BY <1>1, <1>2, GivenNames

\* What a conversion makes of values.
LEMMA ConvertedOk ==
    ASSUME NEW vs, NEW from, NEW to, NEW c \in Converted(vs, from, to)
    PROVE  /\ Image(vs, from, to, c.values)
           /\ from.name # "_CHAR" /\ to.name = "_CHAR" => ~c.bad
<1> DEFINE R == UNION {ConvertedOne(vs[i], from, to) : i \in DOMAIN vs}
           G == {g \in [DOMAIN vs -> R] : \A i \in DOMAIN vs : g[i] \in ConvertedOne(vs[i], from, to)}
<1>1. PICK f \in G : c = [values |-> [i \in DOMAIN f |-> f[i].value], bad |-> \E i \in DOMAIN f : f[i].bad]
  BY DEF Converted
<1>2. DOMAIN f = DOMAIN vs /\ \A i \in DOMAIN vs : f[i] \in ConvertedOne(vs[i], from, to)
  BY <1>1
<1> HIDE DEF G
<1>3. c.values = [i \in DOMAIN vs |-> f[i].value]
  BY <1>1, <1>2
<1>4. c.bad => \E i \in DOMAIN vs : f[i].bad
  BY <1>1, <1>2
<1>5. ASSUME from.name # "_CHAR", to.name = "_CHAR", NEW i \in DOMAIN vs PROVE ~f[i].bad
  <2>1. f[i] = [value |-> Padded(TextOf(vs[i], from.name), to.len), bad |-> FALSE]
    BY <1>2, <1>5 DEF ConvertedOne, WhichConversion
  <2> QED
    BY <2>1
<1> QED
  BY <1>2, <1>3, <1>4, <1>5 DEF Image

\* What a conversion to the type of an object makes of values of a type fits.
LEMMA ImageFits ==
    ASSUME NEW type, NEW vs, NEW to \in VType, NEW ws, OfType(type, vs), Image(vs, type, to, ws)
    PROVE  Fits(ws, to)
<1>1. DOMAIN ws = DOMAIN vs
  <2>1. ws = [i \in DOMAIN vs |-> ws[i]]
    BY DEF Image
  <2> QED
    BY <2>1
<1>2. ASSUME NEW i \in DOMAIN vs
      PROVE  /\ i \in Int
             /\ to.name = "_LOGICAL" => ws[i] \in {0, 1}
             /\ to.name \in Numeric => ws[i] \in VRange(to.name)
  <2>1. PICK r \in ConvertedOne(vs[i], type, to) : ws[i] = r.value
    BY DEF Image
  <2>2. i \in Int /\ type \in GivenType /\ IsValue(vs[i], type)
    BY DEF OfType
  <2> QED
    BY <2>1, <2>2, ConvertedFits
<1> QED
  BY <1>1, <1>2 DEF Fits

\* The places in a sequence of values.
LEMMA Positions == \A k : \A i \in 1..k : i \in Int
OBVIOUS

\* What the program gives is of the type that it says.
LEMMA GivenOk ==
    /\ \A t \in Access : t \in GivenType
    /\ \A n : \A t \in Access : \A vals \in Arrays(t, n) : OfType(t, vals)
    /\ \A k : \A n \in Nat \ {0} : \A vals \in Arrays(Char(n), k) : OfType(Char(n), vals)
    /\ \A k : OfType(Char(1), [i \in 1..k |-> <<" ">>])
    /\ \A s \in VTexts : Len(s) \in Nat /\ IsText(s, Len(s))
<1>1. \A t \in Access : t \in GivenType
  BY DEF Access, GivenType
<1>2. \A n \in Nat \ {0} : Char(n) \in GivenType /\ Char(n).name = "_CHAR" /\ Char(n).len = n
  BY DEF GivenType, Char
<1>3. ASSUME NEW t \in Access, NEW n, NEW vals \in Arrays(t, n) PROVE OfType(t, vals)
  <2>1. vals \in [1..n -> VInput(t)]
    BY DEF Arrays
  <2>2. t.name # "_CHAR"
    BY ValuesAssumption DEF Access, T, Numeric
  <2>3. \A v \in VInput(t) : IsValue(v, t)
    BY <2>2 DEF VInput, IsValue
  <2> QED
    BY <1>1, <2>1, <2>3, Positions DEF OfType
<1>4. ASSUME NEW n \in Nat \ {0}, NEW k, NEW vals \in Arrays(Char(n), k) PROVE OfType(Char(n), vals)
  <2>1. vals \in [1..k -> VInput(Char(n))]
    BY DEF Arrays
  <2>2. VInput(Char(n)) = {Padded(s, n) : s \in VTexts}
    BY <1>2 DEF VInput
  <2>3. \A s : IsText(Padded(s, n), n)
    BY DEF Padded, IsText
  <2>4. \A v \in VInput(Char(n)) : IsValue(v, Char(n))
    BY <1>2, <2>2, <2>3 DEF IsValue
  <2> QED
    BY <1>2, <2>1, <2>4, Positions DEF OfType
<1>5. ASSUME NEW k PROVE OfType(Char(1), [i \in 1..k |-> <<" ">>])
  <2> DEFINE vals == [i \in 1..k |-> <<" ">>]
  <2>1. IsText(<<" ">>, 1)
    BY DEF IsText
  <2>2. 1 \in Nat \ {0}
    OBVIOUS
  <2>3. IsValue(<<" ">>, Char(1))
    BY <1>2, <2>1, <2>2 DEF IsValue
  <2>4. DOMAIN vals = 1..k /\ (\A i \in 1..k : vals[i] = <<" ">>) /\ vals = [i \in 1..k |-> vals[i]]
    OBVIOUS
  <2> HIDE DEF vals
  <2>5. OfType(Char(1), vals)
    BY <1>2, <2>2, <2>3, <2>4, Positions DEF OfType
  <2> QED
    BY <2>5 DEF vals
<1>6. ASSUME NEW s \in VTexts PROVE Len(s) \in Nat /\ IsText(s, Len(s))
  <2>1. s \in Seq(STRING)
    BY ValuesAssumption
  <2> QED
    BY <2>1 DEF IsText
<1> QED
  BY <1>1, <1>3, <1>4, <1>5, <1>6

\* The routines that make an object.
LEMMA MakeKinds ==
    ASSUME VInv
    PROVE  datNew0_ \/ datNew1_ \/ datNewC \/ datNew0C \/ datNew1C \/ datReset => Remakes
<1>1. ASSUME NEW type \in VType, NEW shape, MakeObject(type, shape) PROVE Remakes
  BY <1>1 DEF MakeObject, Remakes
<1>2. /\ \A t \in Access : t \in VType
      /\ \A n \in CharLen : Char(n) \in VType
  BY DEF VType, Access
<1>3. datNew0_ => Remakes
  BY <1>1, <1>2 DEF datNew0_
<1>4. datNew1_ => Remakes
  BY <1>1, <1>2 DEF datNew1_
<1>5. datNewC => Remakes
  BY <1>1, <1>2 DEF datNewC
<1>6. datNew0C => Remakes
  BY <1>1, <1>2 DEF datNew0C
<1>7. datNew1C => Remakes
  BY <1>1, <1>2 DEF datNew1C
<1>8. datReset => Remakes
  BY DEF datReset, MakeObject, Remakes, VInv
<1> QED
  BY <1>3, <1>4, <1>5, <1>6, <1>7, <1>8

\* A call that fails at once.
LEMMA FailsKind == ASSUME NEW s, Fails(s) PROVE ReadsOnly
BY DEF Fails, ReadsOnly

\* The routines that write, for values already chosen, of any shape.
LEMMA PutKinds ==
    ASSUME VInv, NEW STATE shape, NEW type, NEW dims, NEW vals, NEW after \in {"OK", "TRUNC"},
           DatPut(type, shape, dims, vals, after),
           TypeAccepted(type) => OfType(type, vals)
    PROVE  ReadsOnly \/ Writes
<1>1. ASSUME Refusal(type, shape, dims) = "OK", Overrun(vals, type, vtype, "temporary") # "none"
      PROVE  /\ Overrun(vals, type, vtype, "temporary") = "temporary"
             /\ type.name # "_CHAR" /\ vtype.name = "_CHAR"
             /\ \E i \in DOMAIN vals : Len(TextOf(vals[i], type.name)) > vtype.len
  <2>1. OfType(type, vals)
    BY <1>1 DEF Refusal
  <2>2. vtype.name = "_CHAR" => vtype.len \in Nat
    BY TypeNames DEF VInv
  <2>3. \A i \in DOMAIN vals : i \in Int
    BY <2>1 DEF OfType
  <2>4. /\ Overrun(vals, type, vtype, "temporary") = "temporary"
        /\ type.name # "_CHAR" /\ vtype.name = "_CHAR"
        /\ \E i \in DOMAIN vals : ~(Len(TextOf(vals[i], type.name)) <= vtype.len)
    BY <1>1, <2>2, <2>3, NoOverrun
  <2>5. ASSUME NEW i \in DOMAIN vals PROVE Len(TextOf(vals[i], type.name)) \in Int
    <3>1. IsValue(vals[i], type) /\ type \in GivenType
      BY <2>1 DEF OfType
    <3> QED
      BY <2>4, <3>1, TextLength
  <2> QED
    BY <2>2, <2>4, <2>5
<1>2. CASE Refusal(type, shape, dims) # "OK"
  BY <1>2 DEF DatPut, Fails, ReadsOnly
<1>3. CASE Refusal(type, shape, dims) = "OK"
  <2>1. PICK c \in Converted(vals, type, vtype) :
            /\ voverrun' = Overrun(vals, type, vtype, "temporary")
            /\ vstat' = IF c.bad THEN "CONER" ELSE after
            /\ IF c.bad THEN UNCHANGED <<vdata, vput, vgot>>
               ELSE /\ vdata' = c.values
                    /\ vput' = [type |-> type, values |-> vals]
                    /\ vgot' = Nothing
            /\ UNCHANGED <<vtype, vshape>>
    BY <1>3 DEF DatPut
  <2>2. CASE c.bad
    <3>1. ~(type.name # "_CHAR" /\ vtype.name = "_CHAR")
      BY <2>2, ConvertedOk
    <3>2. voverrun' = "none"
      BY <1>1, <1>3, <2>1, <3>1
    <3> QED
      BY <2>1, <2>2, <3>2 DEF ReadsOnly
  <2>3. CASE ~c.bad
    <3>1. OfType(type, vals)
      BY <1>3 DEF Refusal
    <3>2. Image(vals, type, vtype, c.values)
      BY <2>1, ConvertedOk
    <3>3. vput'.type = type /\ vput'.values = vals /\ vdata' = c.values
      BY <2>1, <2>3
    <3>4. OfType(vput'.type, vput'.values) /\ Image(vput'.values, vput'.type, vtype, vdata')
      BY <3>1, <3>2, <3>3
    <3>5. /\ voverrun' # "own"
          /\ voverrun' = "temporary" =>
                /\ vtype.name = "_CHAR"
                /\ \E i \in DOMAIN vput'.values : Len(TextOf(vput'.values[i], vput'.type.name)) > vtype.len
      BY <1>1, <1>3, <2>1, <3>3
    <3> QED
      BY <2>1, <2>3, <3>4, <3>5 DEF Writes
  <2> QED
    BY <2>2, <2>3
<1> QED
  BY <1>2, <1>3

\* What is read.
LEMMA ReadOk ==
    ASSUME NEW type, NEW r \in Read(type)
    PROVE  ReadAs(type, r.values)
<1>1. CASE type.name = "_CHAR" /\ vtype.name = "_CHAR" /\ type.len < vtype.len
  BY <1>1 DEF ReadAs
<1>2. CASE ~(type.name = "_CHAR" /\ vtype.name = "_CHAR" /\ type.len < vtype.len)
  <2>1. PICK c \in Converted(vdata, vtype, type) : r.values = c.values
    BY <1>2 DEF Read
  <2>2. Image(vdata, vtype, type, c.values)
    BY ConvertedOk
  <2> QED
    BY <2>1, <2>2 DEF ReadAs
<1> QED
  BY <1>1, <1>2

\* The routines that read, of any shape.
LEMMA GetKinds ==
    ASSUME VInv, NEW STATE shape, NEW type, NEW dims, DatGet(type, shape, dims)
    PROVE  ReadsOnly
<1>1. \A v : Overrun(v, vtype, type, "given") \in {"none", "given"}
  <2>1. DatLen(vtype) = H5Type(vtype, TRUE).size /\ H5Type(vtype, TRUE).size \in Nat
    BY LengthInMemory DEF VInv
  <2>2. ASSUME NEW x, NEW y, x = y, y \in Nat PROVE ~(x < y)
    BY <2>2
  <2>3. ~(DatLen(vtype) < H5Type(vtype, TRUE).size)
    BY <2>1, <2>2
  <2> QED
    BY <2>3 DEF Overrun
<1>2. CASE Refusal(type, shape, dims) # "OK"
  BY <1>2 DEF DatGet, Fails, ReadsOnly
<1>3. CASE Refusal(type, shape, dims) = "OK" /\ vdata = Unwritten
  BY <1>3 DEF DatGet, Fails, ReadsOnly
<1>4. CASE Refusal(type, shape, dims) = "OK" /\ vdata # Unwritten
  <2>1. PICK r \in Read(type) :
            /\ vgot' = [type |-> type, values |-> r.values]
            /\ voverrun' = Overrun(vdata, vtype, type, "given")
            /\ UNCHANGED <<vtype, vshape, vdata, vput>>
    BY <1>4 DEF DatGet
  <2>2. ReadAs(type, r.values)
    BY ReadOk
  <2>3. vgot'.type = type /\ vgot'.values = r.values
    BY <2>1
  <2>4. ReadAs(vgot'.type, vgot'.values)
    BY <2>2, <2>3
  <2> QED
    BY <1>1, <1>4, <2>1, <2>4 DEF ReadsOnly
<1> QED
  BY <1>2, <1>3, <1>4

\* A text given to datPutC, which takes none at all for a blank.
LEMMA PutTextKinds ==
    ASSUME VInv, NEW STATE shape, NEW n, NEW dims, NEW vals, NEW after \in {"OK", "TRUNC"},
           datPutC(shape, n, dims, vals, after),
           n \in Nat \ {0} => OfType(Char(n), vals)
    PROVE  ReadsOnly \/ Writes
<1>1. CASE n > 0
  <2>1. DatPut(Char(n), shape, dims, vals, after)
    BY <1>1 DEF datPutC
  <2>2. TypeAccepted(Char(n)) => n \in Nat \ {0}
    <3>1. Char(n).name = "_CHAR" /\ Char(n).len = n /\ "_CHAR" \notin Numeric \cup {"_LOGICAL"}
      BY ValuesAssumption DEF Char, Numeric
    <3>2. TypeAccepted(Char(n)) => n \in 1..DAT__MXCHR
      BY <3>1 DEF TypeAccepted
    <3>3. 1..DAT__MXCHR \in SUBSET (Nat \ {0})
      BY DEF DAT__MXCHR
    <3> QED
      BY <3>2, <3>3
  <2> QED
    BY <2>1, <2>2, PutKinds
<1>2. CASE ~(n > 0)
  <2>1. DatPut(Char(1), shape, dims, [i \in 1..Product(dims) |-> <<" ">>], after)
    BY <1>2 DEF datPutC
  <2>2. OfType(Char(1), [i \in 1..Product(dims) |-> <<" ">>])
    BY GivenOk
  <2> QED
    BY <2>1, <2>2, PutKinds
<1> QED
  BY <1>1, <1>2

\* The routines that write a vector.
LEMMA VectorPutKinds ==
    ASSUME VInv, NEW STATE shape, Put1(shape) \/ Put1C(shape)
    PROVE  ReadsOnly \/ Writes
<1>1. CASE Put1(shape)
  <2>1. PICK n \in 1..2, t \in Access :
            IF n # Product(shape) THEN Fails("BOUND")
            ELSE \E vals \in Arrays(t, n) : DatPut(t, shape, <<n>>, vals, "OK")
    BY <1>1 DEF Put1
  <2>2. CASE n # Product(shape)
    BY <2>1, <2>2, FailsKind
  <2>3. CASE n = Product(shape)
    <3>1. PICK vals \in Arrays(t, n) : DatPut(t, shape, <<n>>, vals, "OK")
      BY <2>1, <2>3
    <3>2. OfType(t, vals)
      BY GivenOk
    <3> QED
      BY <3>1, <3>2, PutKinds
  <2> QED
    BY <2>2, <2>3
<1>2. CASE Put1C(shape)
  <2>0. PICK n \in 1..2 : \E texts \in [1..n -> VTexts] :
            IF n # Product(shape) THEN Fails("BOUND")
            ELSE datPutC(shape, DatClen(vtype), <<n>>, [i \in 1..n |-> Padded(texts[i], DatClen(vtype))],
                         IF \E i \in 1..n : Len(texts[i]) > DatClen(vtype) THEN "TRUNC" ELSE "OK")
    BY <1>2 DEF Put1C
  <2>1. PICK texts \in [1..n -> VTexts] :
            IF n # Product(shape) THEN Fails("BOUND")
            ELSE datPutC(shape, DatClen(vtype), <<n>>, [i \in 1..n |-> Padded(texts[i], DatClen(vtype))],
                         IF \E i \in 1..n : Len(texts[i]) > DatClen(vtype) THEN "TRUNC" ELSE "OK")
    BY <2>0
  <2>2. CASE n # Product(shape)
    BY <2>1, <2>2, FailsKind
  <2>3. CASE n = Product(shape)
    <3>1. PICK long : long = DatClen(vtype)
      OBVIOUS
    <3>2. PICK after \in {"OK", "TRUNC"} :
             after = IF \E i \in 1..n : Len(texts[i]) > DatClen(vtype) THEN "TRUNC" ELSE "OK"
      OBVIOUS
    <3>3. datPutC(shape, long, <<n>>, [i \in 1..n |-> Padded(texts[i], long)], after)
      BY <2>1, <2>3, <3>1, <3>2
    <3>4. ASSUME long \in Nat \ {0} PROVE OfType(Char(long), [i \in 1..n |-> Padded(texts[i], long)])
      <4> DEFINE vals == [i \in 1..n |-> Padded(texts[i], long)]
      <4>1. vals \in Arrays(Char(long), n)
        BY DEF Arrays, VInput, Char
      <4> QED
        BY <3>4, <4>1, GivenOk
    <3> QED
      BY <3>3, <3>4, PutTextKinds
  <2> QED
    BY <2>2, <2>3
<1> QED
  BY <1>1, <1>2

\* Every call is of one of the three kinds.
LEMMA CallKinds ==
    ASSUME VInv, VNext
    PROVE  ReadsOnly \/ Writes \/ Remakes
<1> USE DEF VectorShape
<1>1. datPut_ => ReadsOnly \/ Writes
  <2> SUFFICES ASSUME datPut_ PROVE ReadsOnly \/ Writes
    OBVIOUS
  <2>1. PICK t \in Access, d \in VShape : \E vals \in Arrays(t, Product(d)) : DatPut(t, vshape, d, vals, "OK")
    BY DEF datPut_
  <2>2. PICK vals \in Arrays(t, Product(d)) : DatPut(t, vshape, d, vals, "OK")
    BY <2>1
  <2> QED
    BY <2>2, GivenOk, PutKinds
<1>2. datPut0_ => ReadsOnly \/ Writes
  BY GivenOk, PutKinds, FailsKind DEF datPut0_
<1>3. datPut1_ \/ datPutV_ \/ datPut1C \/ datPutVC => ReadsOnly \/ Writes
  BY VectorPutKinds DEF datPut1_, datPutV_, datPut1C, datPutVC
<1>4. ASSUME NEW n \in CharLen \cup {0}, NEW d \in VShape, NEW vals \in Arrays(Char(n), Product(d)),
             datPutC(vshape, n, d, vals, "OK")
      PROVE  ReadsOnly \/ Writes
  <2>1. n \in Nat \ {0} => OfType(Char(n), vals)
    BY GivenOk
  <2> QED
    BY <1>4, <2>1, PutTextKinds
<1>5. datPut0C => ReadsOnly \/ Writes
  <2> SUFFICES ASSUME datPut0C PROVE ReadsOnly \/ Writes
    OBVIOUS
  <2>1. CASE ~IsScalar
    BY <2>1, FailsKind DEF datPut0C
  <2>2. CASE IsScalar
    <3>1. PICK s \in VTexts : datPutC(vshape, Len(s), vshape, <<s>>, "OK")
      BY <2>2 DEF datPut0C
    <3>2. ASSUME Len(s) \in Nat \ {0} PROVE OfType(Char(Len(s)), <<s>>)
      <4> DEFINE n == Len(s)
      <4>1. IsText(s, n)
        BY GivenOk
      <4> HIDE DEF n
      <4>2. Char(n) \in GivenType /\ IsValue(s, Char(n))
        BY <3>2, <4>1 DEF GivenType, Char, IsValue, n
      <4> QED
        BY <4>2 DEF OfType, n
    <3>3. PICK n : n = Len(s)
      OBVIOUS
    <3> QED
      BY <3>1, <3>2, <3>3, PutTextKinds
  <2> QED
    BY <2>1, <2>2
<1>6. datGet_ \/ datGet0_ => ReadsOnly
  BY GetKinds, FailsKind DEF datGet_, datGet0_
<1>7. datGet1_ \/ datGetV_ => ReadsOnly
  BY GetKinds, FailsKind DEF datGet1_, datGetV_, Get1
<1>8. ASSUME NEW n \in CharLen \cup {0}, NEW d \in VShape, datGetC(vshape, n, d) PROVE ReadsOnly
  BY <1>8, GetKinds DEF datGetC
<1>9. datGet0C => ReadsOnly
  BY GetKinds, FailsKind DEF datGet0C, datGetC
<1>10. ASSUME NEW STATE shape, Get1C(shape) PROVE ReadsOnly
  <2> DEFINE type == Char(DatClen(vtype))
             refusal == Refusal(type, shape, <<Product(shape)>>)
  <2>1. PICK maxval \in 1..2, space \in 1..9, pointers \in BOOLEAN :
           IF pointers /\ maxval < Product(shape) THEN Fails("BOUND")
           ELSE IF refusal # "OK" THEN Fails(refusal)
           ELSE IF vdata = Unwritten THEN Fails("UNSET")
           ELSE \E r \in Read(type) :
                     LET used == FoldSeq(LAMBDA s, k : k + Len(Trimmed(s)) + 1, 0, r.values)
                         fits == used <= space
                     IN /\ vgot' = IF r.status = "OK" /\ fits
                                   THEN [type |-> type, values |-> r.values] ELSE Nothing
                        /\ vstat' = IF r.status # "OK" THEN r.status ELSE IF fits THEN "OK" ELSE "TRUNC"
                        /\ voverrun' = IF r.status = "OK" /\ ~fits THEN "given"
                                       ELSE Overrun(vdata, vtype, type, "own")
                        /\ UNCHANGED <<vtype, vshape, vdata, vput>>
    BY <1>10 DEF Get1C
  <2>2. ASSUME vdata # Unwritten PROVE Overrun(vdata, vtype, type, "own") = "none"
    <3> SUFFICES ASSUME Overrun(vdata, vtype, type, "own") # "none" PROVE FALSE
      OBVIOUS
    <3>1. Fits(vdata, vtype) /\ vtype \in VType
      BY <2>2 DEF VInv
    <3>2. type.name = "_CHAR" /\ type.len = DatClen(vtype) /\ DatClen(vtype) \in Nat
      BY <3>1, ClenOk DEF Char
    <3> HIDE DEF type
    <3>3. /\ vtype.name # "_CHAR"
          /\ \E i \in DOMAIN vdata : ~(Len(TextOf(vdata[i], vtype.name)) <= type.len)
      <4>1. \A i \in DOMAIN vdata : i \in Int
        BY <3>1 DEF Fits
      <4> QED
        BY <3>2, <4>1, NoOverrun
    <3>4. vtype.name = "_LOGICAL" \/ vtype.name \in Numeric
      BY <3>1, <3>3 DEF VType, T, Char
    <3> QED
      BY <3>1, <3>2, <3>3, <3>4, ClenOk DEF Fits
  <2> HIDE DEF type, refusal
  <2>3. CASE pointers /\ maxval < Product(shape)
    BY <2>1, <2>3, FailsKind
  <2>4. CASE ~(pointers /\ maxval < Product(shape)) /\ refusal # "OK"
    BY <2>1, <2>4 DEF Fails, ReadsOnly
  <2>5. CASE ~(pointers /\ maxval < Product(shape)) /\ refusal = "OK" /\ vdata = Unwritten
    BY <2>1, <2>5, FailsKind
  <2>6. CASE ~(pointers /\ maxval < Product(shape)) /\ refusal = "OK" /\ vdata # Unwritten
    <3> DEFINE used(r) == FoldSeq(LAMBDA s, k : k + Len(Trimmed(s)) + 1, 0, r.values)
               fits(r) == used(r) <= space
    <3>0. PICK r \in Read(type) :
             /\ vgot' = IF r.status = "OK" /\ fits(r) THEN [type |-> type, values |-> r.values]
                        ELSE Nothing
             /\ voverrun' = IF r.status = "OK" /\ ~fits(r) THEN "given"
                            ELSE Overrun(vdata, vtype, type, "own")
             /\ UNCHANGED <<vtype, vshape, vdata, vput>>
      BY <2>1, <2>6
    <3> HIDE DEF fits
    <3>1. /\ vgot' \in {[type |-> type, values |-> r.values], Nothing}
          /\ voverrun' \notin {"temporary", "own"}
          /\ UNCHANGED <<vtype, vshape, vdata, vput>>
      BY <2>2, <2>6, <3>0
    <3>2. ReadAs(type, r.values)
      BY ReadOk
    <3>3. vgot' = Nothing \/ (vgot'.type = type /\ vgot'.values = r.values)
      BY <3>1
    <3>4. vgot' = Nothing \/ ReadAs(vgot'.type, vgot'.values)
      BY <3>2, <3>3
    <3> QED
      BY <2>6, <3>1, <3>4 DEF ReadsOnly
  <2> QED
    BY <2>3, <2>4, <2>5, <2>6
<1> QED
  BY <1>1, <1>2, <1>3, <1>4, <1>5, <1>6, <1>7, <1>8, <1>9, <1>10, MakeKinds
     DEF VNext, datGet1C, datGetVC

\* What every state has, a step keeps.
LEMMA VInvStep == ASSUME VInv, [VNext]_vvars PROVE VInv'
<1>1. CASE UNCHANGED vvars
  BY <1>1 DEF VInv, VBufferHolds, Fits, vvars
<1>2. CASE ReadsOnly
  BY <1>2 DEF VInv, VBufferHolds, Fits, ReadsOnly
<1>3. CASE Writes
  <2>1. vtype' = vtype /\ vtype \in VType
    BY <1>3 DEF Writes, VInv
  <2>2. Fits(vdata', vtype)
    BY <1>3, <2>1, ImageFits DEF Writes
  <2>3. Fits(vdata, vtype)'
    BY <2>1, <2>2 DEF Fits
  <2> QED
    BY <1>3, <2>1, <2>3 DEF VInv, VBufferHolds, Writes
<1>4. CASE Remakes
  BY <1>4 DEF VInv, VBufferHolds, Remakes
<1> QED
  BY <1>1, <1>2, <1>3, <1>4, CallKinds

\* What every state has, it keeps.
LEMMA VInvHolds == VSpec => []VInv
<1>1. VInit => VInv
  BY DEF VInit, VInv, VBufferHolds
<1>2. VInv /\ [VNext]_vvars => VInv'
  BY VInvStep
<1> QED
  BY <1>1, <1>2, PTL DEF VSpec

\* VBufferHolds: datGet1C and datGetVC get a buffer that holds the texts of any
\* values, and that of datPut is run over by texts only that the object has no
\* room for, whatever types there are and however wide.
THEOREM BuffersHold == VSpec => []VBufferHolds
<1>1. VInv => VBufferHolds
  BY DEF VInv
<1> QED
  BY <1>1, VInvHolds, PTL

\* VAllOrNothing: a call either stores all its values or leaves the object as
\* it was and reports an error.
THEOREM AllOrNothing == VSpec => VAllOrNothing
<1> DEFINE Kept == /\ vdata' # vdata => vdata' = Unwritten \/ vstat' \in {"OK", "TRUNC"}
                   /\ vstat' \notin {"OK", "TRUNC"} => <<vtype, vdata, vput>>' = <<vtype, vdata, vput>>
<1>1. VInv /\ [VNext]_vvars => [Kept]_vvars
  <2>1. CASE VInv /\ VNext
    BY <2>1, CallKinds DEF ReadsOnly, Writes, Remakes
  <2>2. CASE UNCHANGED vvars
    BY <2>2
  <2> QED
    BY <2>1, <2>2
<1> QED
  BY <1>1, VInvHolds, PTL DEF VSpec, VAllOrNothing

\* What was written last is what the object holds, converted, and what was
\* read last is what it holds, converted back.
RoundInv ==
    /\ VInv
    /\ vdata # Unwritten => OfType(vput.type, vput.values) /\ Image(vput.values, vput.type, vtype, vdata)
    /\ vgot # Nothing => vdata # Unwritten /\ ReadAs(vgot.type, vgot.values)

\* Every call keeps it so.
LEMMA RoundStep ==
    ASSUME RoundInv, [VNext]_vvars
    PROVE  RoundInv'
<1>1. CASE UNCHANGED vvars
  <2>1. UNCHANGED <<vtype, vdata, vput, vgot>>
    BY <1>1 DEF vvars
  <2>2. VInv'
    BY VInvStep DEF RoundInv
  <2> QED
    BY <2>1, <2>2 DEF RoundInv, ReadAs
<1>2. CASE VNext
  <2>1. ReadsOnly \/ Writes \/ Remakes
    BY <1>2, CallKinds DEF RoundInv
  <2>2. VInv'
    BY VInvStep DEF RoundInv
  <2>3. CASE ReadsOnly
    <3>1. /\ UNCHANGED <<vtype, vdata, vput>>
          /\ vgot' \in {vgot, Nothing} \/ (vdata # Unwritten /\ ReadAs(vgot'.type, vgot'.values))
      BY <2>3 DEF ReadsOnly
    <3>2. CASE vgot' \in {vgot, Nothing}
      BY <2>2, <3>1, <3>2 DEF RoundInv, ReadAs
    <3>3. CASE vdata # Unwritten /\ ReadAs(vgot'.type, vgot'.values)
      <4>1. vdata' # Unwritten /\ ReadAs(vgot.type, vgot.values)'
        BY <3>1, <3>3 DEF ReadAs
      <4> QED
        BY <2>2, <3>1, <4>1 DEF RoundInv
    <3> QED
      BY <3>1, <3>2, <3>3
  <2>4. CASE Writes
    <3>1. /\ vtype' = vtype /\ vgot' = Nothing
          /\ OfType(vput'.type, vput'.values) /\ Image(vput'.values, vput'.type, vtype, vdata')
      BY <2>4 DEF Writes
    <3> QED
      BY <2>2, <3>1 DEF RoundInv
  <2>5. CASE Remakes
    BY <2>2, <2>5 DEF RoundInv, Remakes
  <2> QED
    BY <2>1, <2>3, <2>4, <2>5
<1> QED
  BY <1>1, <1>2

\* VRoundTrip, for all values.
LEMMA RoundRight == RoundInv => VRoundTrip
<1> SUFFICES ASSUME RoundInv, vgot # Nothing, vgot.type = vput.type,
                    \A i \in DOMAIN vput.values : Storable(vtype, vput.values[i], vput.type),
                    ~(vtype.name = "_CHAR" /\ vput.type.name = "_CHAR" /\ vput.type.len < vtype.len)
             PROVE  vgot.values = vput.values
  BY DEF VRoundTrip
<1> DEFINE vs == vput.values
           ws == vgot.values
           from == vput.type
<1>1. vdata # Unwritten /\ ReadAs(vgot.type, ws)
  BY DEF RoundInv
<1>2. OfType(from, vs) /\ Image(vs, from, vtype, vdata)
  BY <1>1 DEF RoundInv
<1>3. Image(vdata, vtype, from, ws)
  BY <1>1 DEF ReadAs
<1>4. vtype \in GivenType
  <2>1. vtype \in VType
    BY DEF RoundInv, VInv
  <2>2. CharLen \subseteq Nat \ {0}
    BY ValuesAssumption
  <2> QED
    BY <2>1, <2>2 DEF VType, GivenType
<1> HIDE DEF vs, ws, from
<1>5. /\ from \in GivenType
      /\ vs = [i \in DOMAIN vs |-> vs[i]]
      /\ \A i \in DOMAIN vs : IsValue(vs[i], from)
  BY <1>2 DEF OfType
<1>6. DOMAIN vdata = DOMAIN vs /\ \A i \in DOMAIN vs : \E r \in ConvertedOne(vs[i], from, vtype) : vdata[i] = r.value
  <2>1. vdata = [i \in DOMAIN vs |-> vdata[i]]
    BY <1>2 DEF Image
  <2>2. DOMAIN vdata = DOMAIN vs
    BY <2>1
  <2> QED
    BY <1>2, <2>2 DEF Image
<1>7. ws = [i \in DOMAIN vdata |-> ws[i]] /\ \A i \in DOMAIN vdata : \E q \in ConvertedOne(vdata[i], vtype, from) : ws[i] = q.value
  BY <1>3 DEF Image
<1>8. ASSUME NEW i \in DOMAIN vs PROVE ws[i] = vs[i]
  <2>1. PICK r \in ConvertedOne(vs[i], from, vtype) : vdata[i] = r.value
    BY <1>6
  <2>2. PICK q \in ConvertedOne(vdata[i], vtype, from) : ws[i] = q.value
    BY <1>6, <1>7
  <2>3. q \in ConvertedOne(r.value, vtype, from)
    BY <2>1
  <2>4. Storable(vtype, vs[i], from)
    BY DEF vs, from
  <2>5. ~(vtype.name = "_CHAR" /\ from.name = "_CHAR" /\ from.len < vtype.len)
    BY DEF from
  <2>6. IsValue(vs[i], from)
    BY <1>5
  <2>7. q.value = vs[i]
    BY <1>4, <1>5, <2>3, <2>4, <2>5, <2>6, ValueComesBack
  <2> QED
    BY <2>2, <2>7
<1>9. ws = vs
  BY <1>5, <1>6, <1>7, <1>8
<1> QED
  BY <1>9 DEF ws, vs

\* VRoundTrip: what is written with datPut and read with datGet as the same type
\* is what was written, for objects of any type that can hold it: however wide
\* the types, however long the texts, whatever the numbers and the shape, and
\* through all the routines.
THEOREM ValuesComeBack == VSpec => []VRoundTrip
<1>1. VInit => RoundInv
  BY DEF VInit, RoundInv, VInv, VBufferHolds
<1>2. RoundInv /\ [VNext]_vvars => RoundInv'
  BY RoundStep
<1> QED
  BY <1>1, <1>2, RoundRight, PTL DEF VSpec

-----------------------------------------------------------------------------
(* Tuning *)

\* What the environment, or else the default, makes of the parameter.
Settled(x) == x \in {Accept(v) : v \in environ} \/ (environ = {} /\ x = Default)

TuneTypes ==
    /\ initialized \in BOOLEAN /\ begun \subseteq Tuner /\ stored \subseteq Tuner
    /\ doing \in [Tuner -> [at : {"away", "read", "write", "flag", "get"}, value : Int]]
    /\ param \in {"SHELL", "MAP", "LOCKCHECK"}

Looking(t) == doing[t].at \in {"read", "write"}

\* A thread stores once, and then sets the flag: until it does, it does nothing else.
StoredOnce ==
    /\ \A t \in stored : ~Looking(t)
    /\ ~initialized => \A t \in stored : doing[t].at = "flag"

\* The threads that can still store were among those that could at the last hdsTune.
NoneJoins ==
    lastTuned # {} =>
        /\ \A t \in Tuner \ stored : Looking(t) \/ ~initialized => t \in begun
        /\ lastTuned = {tuned} \/ begun \cap stored # {}

\* What threads found in the environment.
Environs ==
    environ # {} =>
        /\ \A t \in Tuner : doing[t].at = "write" => doing[t].value \in environ
        /\ lastTuned # {} => tuned \in lastTuned \cup {Accept(v) : v \in environ}

Untuned ==
    lastTuned = {} =>
        /\ environ = {} => tuned = Default
        /\ \A t \in Tuner : doing[t].at = "write" =>
              IF environ = {} THEN doing[t].value = Default ELSE doing[t].value \in environ
        /\ initialized \/ (\E t \in Tuner : doing[t].at = "flag") => Settled(tuned)

TuneInv ==
    /\ TuneTypes /\ environ \subseteq Int /\ tuned \in Int
    /\ StoredOnce /\ NoneJoins /\ Environs /\ Untuned

\* What is accepted is a number.
LEMMA AcceptInt == ASSUME NEW v \in Int PROVE Accept(v) \in Int
BY DEF Accept

\* The default value is accepted as it is.
LEMMA DefaultAccepted == Default \in Int /\ Accept(Default) = Default
BY DEF Accept, Default

\* The value that a thread writes is settled.
LEMMA WrittenSettled ==
    ASSUME NEW x, IF environ = {} THEN x = Default ELSE x \in environ
    PROVE  Settled(Accept(x)) /\ (environ = {} => Accept(x) = Default)
<1>1. CASE environ = {}
  BY <1>1, DefaultAccepted DEF Settled
<1>2. CASE environ # {}
  BY <1>2 DEF Settled
<1> QED
  BY <1>1, <1>2

\* Before any call.
LEMMA TuneInitInv == TuneInit => TuneInv
<1> SUFFICES ASSUME TuneInit PROVE TuneInv
  OBVIOUS
<1>1. environ \subseteq Int
  BY TuningAssumption DEF TuneInit
<1>2. TuneTypes
  <2>1. Away \in [at : {"away", "read", "write", "flag", "get"}, value : Int]
    BY DEF Away
  <2> QED
    BY <2>1 DEF TuneInit, TuneTypes
<1>3. tuned \in Int
  BY DefaultAccepted DEF TuneInit
<1>4. StoredOnce /\ NoneJoins /\ Environs
  BY DEF TuneInit, StoredOnce, NoneJoins, Environs, Away
<1>5. Untuned
  BY DEF TuneInit, Untuned, Away
<1> QED
  BY <1>1, <1>2, <1>3, <1>4, <1>5 DEF TuneInv

\* A step of a thread in its call keeps the types.
LEMMA StepTypes ==
    ASSUME TuneTypes, NEW t \in Tuner, NEW from,
           NEW to \in [at : {"away", "read", "write", "flag", "get"}, value : Int],
           Step(t, from, to), initialized' \in BOOLEAN, stored' \subseteq Tuner,
           UNCHANGED <<begun, param>>
    PROVE  /\ TuneTypes'
           /\ doing'[t] = to
           /\ \A u \in Tuner : u # t => doing'[u] = doing[u]
BY DEF TuneTypes, Step

\* Every step keeps the invariant.
LEMMA TuneStepInv == ASSUME TuneInv, [TuneNext]_tuneVars PROVE TuneInv'
<1> USE DEF TuneInv
<1> DEFINE At == {"away", "read", "write", "flag", "get"}
<1>1. ASSUME NEW t \in Tuner, HdsTune(t) PROVE TuneInv'
  <2>1. PICK v \in TuneValue : tuned' = Accept(v) /\ lastTuned' = {Accept(v)}
    BY <1>1 DEF HdsTune
  <2>2. tuned' \in Int
    BY <2>1, AcceptInt, TuningAssumption
  <2>3. TuneTypes'
    BY <1>1 DEF HdsTune, TuneTypes
  <2>4. StoredOnce' /\ NoneJoins' /\ Environs'
    BY <1>1, <2>1 DEF HdsTune, StoredOnce, NoneJoins, Environs, Looking, TuneTypes
  <2>5. Untuned'
    BY <2>1 DEF Untuned
  <2> QED
    BY <1>1, <2>2, <2>3, <2>4, <2>5 DEF HdsTune
<1>2. ASSUME NEW t \in Tuner, GetBegin(t) PROVE TuneInv'
  <2> DEFINE to == [Away EXCEPT !.at = IF initialized THEN "get" ELSE "read"]
  <2>1. to \in [at : At, value : Int] /\ to.at = IF initialized THEN "get" ELSE "read"
    BY DEF Away
  <2>2. TuneTypes' /\ doing'[t] = to /\ \A u \in Tuner : u # t => doing'[u] = doing[u]
    BY <1>2, <2>1, StepTypes DEF GetBegin, TuneTypes
  <2>3. StoredOnce' /\ NoneJoins' /\ Environs'
    <3>1. t \in stored => initialized
      BY <1>2 DEF GetBegin, Step, StoredOnce
    <3>2. StoredOnce'
      BY <1>2, <2>1, <2>2, <3>1 DEF GetBegin, StoredOnce, Looking, TuneTypes
    <3>3. NoneJoins'
      BY <1>2, <2>1, <2>2 DEF GetBegin, NoneJoins, Looking
    <3>4. Environs'
      BY <1>2, <2>1, <2>2 DEF GetBegin, Environs, Accept
    <3> QED
      BY <3>2, <3>3, <3>4
  <2>4. Untuned'
    BY <1>2, <2>1, <2>2 DEF GetBegin, Untuned, Settled, Accept, Default
  <2> QED
    BY <1>2, <2>2, <2>3, <2>4 DEF GetBegin
<1>3. ASSUME NEW t \in Tuner, ReadEnvironment(t) PROVE TuneInv'
  <2>1. PICK v \in IF environ = {} THEN {tuned} ELSE environ :
                 Step(t, "read", [at |-> "write", value |-> v])
    BY <1>3 DEF ReadEnvironment
  <2>2. v \in Int
    BY <2>1
  <2>3. TuneTypes' /\ doing'[t] = [at |-> "write", value |-> v]
        /\ \A u \in Tuner : u # t => doing'[u] = doing[u]
    BY <1>3, <2>1, <2>2, StepTypes DEF ReadEnvironment, TuneTypes
  <2>4. Looking(t)
    BY <2>1 DEF Step, Looking
  <2>5. StoredOnce' /\ NoneJoins' /\ Environs'
    <3>1. t \notin stored
      BY <2>4 DEF StoredOnce
    <3>2. StoredOnce'
      BY <1>3, <2>3, <3>1 DEF ReadEnvironment, StoredOnce, Looking, TuneTypes
    <3>3. NoneJoins'
      BY <1>3, <2>3, <2>4 DEF ReadEnvironment, NoneJoins, Looking
    <3>4. Environs'
      <4>1. environ # {} => v \in environ
        BY <2>1
      <4>2. \A x \in Int : Accept(x)' = Accept(x)
        BY <1>3 DEF ReadEnvironment, Accept
      <4>3. {Accept(x) : x \in environ}' = {Accept(x) : x \in environ}
        BY <1>3, <4>2 DEF ReadEnvironment
      <4>4. ASSUME environ # {}, NEW u \in Tuner, doing'[u].at = "write"
            PROVE  doing'[u].value \in environ
        BY <2>3, <4>1, <4>4 DEF Environs
      <4> QED
        BY <1>3, <4>3, <4>4 DEF ReadEnvironment, Environs
    <3> QED
      BY <3>2, <3>3, <3>4
  <2>6. Untuned'
    BY <1>3, <2>1, <2>3 DEF ReadEnvironment, Untuned, Settled, Accept, Default
  <2> QED
    BY <1>3, <2>3, <2>5, <2>6 DEF ReadEnvironment
<1>4. ASSUME NEW t \in Tuner, WriteValue(t) PROVE TuneInv'
  <2> DEFINE to == [Away EXCEPT !.at = "flag"]
  <2>1. to \in [at : At, value : Int] /\ to.at = "flag"
    BY DEF Away
  <2>2. TuneTypes' /\ doing'[t] = to /\ \A u \in Tuner : u # t => doing'[u] = doing[u]
    BY <1>4, <2>1, StepTypes DEF WriteValue, TuneTypes
  <2>3. doing[t].at = "write" /\ doing[t].value \in Int
    BY <1>4 DEF WriteValue, Step, TuneTypes
  <2>4. t \notin stored /\ Looking(t) /\ stored' = stored \cup {t}
    BY <1>4, <2>3 DEF WriteValue, StoredOnce, Looking
  <2>5. StoredOnce' /\ NoneJoins' /\ Environs'
    <3>1. StoredOnce'
      BY <1>4, <2>1, <2>2, <2>4 DEF WriteValue, StoredOnce, Looking, TuneTypes
    <3>2. NoneJoins'
      BY <1>4, <2>1, <2>2, <2>4 DEF WriteValue, NoneJoins, Looking
    <3>3. Environs'
      BY <1>4, <2>1, <2>2, <2>3 DEF WriteValue, Environs, Accept
    <3> QED
      BY <3>1, <3>2, <3>3
  <2>6. tuned' \in Int
    BY <1>4, <2>3, AcceptInt DEF WriteValue
  <2>7. Untuned'
    <3> SUFFICES ASSUME lastTuned = {} PROVE Untuned'
      BY <1>4 DEF WriteValue, Untuned
    <3>1. IF environ = {} THEN doing[t].value = Default ELSE doing[t].value \in environ
      BY <2>3 DEF Untuned
    <3>2. Settled(tuned') /\ (environ = {} => tuned' = Default)
      BY <1>4, <3>1, WrittenSettled DEF WriteValue
    <3>3. Settled(tuned)'
      BY <1>4, <3>2 DEF WriteValue, Settled, Accept, Default
    <3>4. Default' = Default
      BY <1>4 DEF WriteValue, Default
    <3> QED
      BY <1>4, <2>1, <2>2, <3>2, <3>3, <3>4 DEF WriteValue, Untuned
  <2> QED
    BY <1>4, <2>2, <2>5, <2>6, <2>7 DEF WriteValue
<1>5. ASSUME NEW t \in Tuner, SetFlag(t) PROVE TuneInv'
  <2> DEFINE to == [Away EXCEPT !.at = "get"]
  <2>1. to \in [at : At, value : Int] /\ to.at = "get"
    BY DEF Away
  <2>2. TuneTypes' /\ doing'[t] = to /\ \A u \in Tuner : u # t => doing'[u] = doing[u]
    BY <1>5, <2>1, StepTypes DEF SetFlag, TuneTypes
  <2>3. doing[t].at = "flag"
    BY <1>5 DEF SetFlag, Step
  <2>4. StoredOnce' /\ NoneJoins' /\ Environs'
    BY <1>5, <2>1, <2>2, <2>3 DEF SetFlag, StoredOnce, NoneJoins, Environs, Looking, Accept,
       TuneTypes
  <2>5. Untuned'
    BY <1>5, <2>1, <2>2, <2>3 DEF SetFlag, Untuned, Settled, Accept, Default
  <2> QED
    BY <1>5, <2>2, <2>4, <2>5 DEF SetFlag
<1>6. ASSUME NEW t \in Tuner, GetValue(t) PROVE TuneInv'
  <2>1. Away \in [at : At, value : Int] /\ Away.at = "away"
    BY DEF Away
  <2>2. TuneTypes' /\ doing'[t] = Away /\ \A u \in Tuner : u # t => doing'[u] = doing[u]
    BY <1>6, <2>1, StepTypes DEF GetValue, TuneTypes
  <2>3. StoredOnce' /\ NoneJoins' /\ Environs'
    <3>1. initialized \/ t \notin stored
      BY <1>6 DEF GetValue, Step, StoredOnce
    <3> QED
      BY <1>6, <2>1, <2>2, <3>1 DEF GetValue, StoredOnce, NoneJoins, Environs, Looking, Accept,
         TuneTypes
  <2>4. Untuned'
    BY <1>6, <2>1, <2>2 DEF GetValue, Untuned, Settled, Accept, Default
  <2> QED
    BY <1>6, <2>2, <2>3, <2>4 DEF GetValue
<1>7. CASE UNCHANGED tuneVars
  BY <1>7 DEF tuneVars, TuneTypes, StoredOnce, NoneJoins, Environs, Looking, Untuned, Settled,
     Accept, Default
<1> QED
  BY <1>1, <1>2, <1>3, <1>4, <1>5, <1>6, <1>7 DEF TuneNext

\* A value that was set with hdsTune is the value until another is set, or until
\* a thread stores what it found in the environment that could do so at that
\* hdsTune; none does twice.  For any number of threads (hdsTune, hdsGtune,
\* hds1ReadTuneEnvironment).
THEOREM TunedValueLasts == TuneSpec => []TunedLasts
<1>1. TuneInv => TunedLasts
  BY DEF TuneInv, StoredOnce, NoneJoins, Environs, Looking, Untuned, Settled, TunedLasts
<1> QED
  BY <1>1, TuneInitInv, TuneStepInv, PTL DEF TuneSpec

-----------------------------------------------------------------------------
(* Opening *)

\* Where a thread is: in hdsOpen, or in hdsNew before and after its file is made.
InOpen == {"open", "register", "find", "store"}
Making == {"create", "unlink"}
Made == {"registertmp", "handle", "new", "annul"}

Calls == [pc : {"idle"} \cup InOpen \cup Making \cup Made, loc : SUBSET OLoc, tmp : SUBSET OLoc,
          found : OTree \cup {NoOTree}, file : Nat, before : SUBSET OLoc]

OpeningTypeOK ==
    /\ disk \in Nat /\ made \in Nat /\ disk <= made
    /\ entry \in BOOLEAN
    /\ primaries \in Seq(OLoc)
    /\ tree \in [OLoc -> OTree \cup {NoOTree}]
    /\ refers \in [OLoc -> Nat]
    /\ held \in SUBSET OLoc
    /\ call \in [Opener -> Calls]

\* The locators of a call, and those of them that are in the list.
Own(t) == call[t].loc \cup call[t].tmp
Listed(t) ==
    (IF call[t].pc \in {"find", "store", "annul"} THEN call[t].loc ELSE {})
        \cup (IF call[t].pc \in {"handle", "new", "annul"} THEN call[t].tmp ELSE {})

\* Those whose Handle has been made.
Handled(t) == IF call[t].pc \in {"new", "annul"} THEN Listed(t) ELSE {}

CallOf(t) ==
    /\ call[t].pc = "idle" => call[t] = Idling
    /\ call[t].pc \in InOpen => call[t].tmp = {} /\ \E l \in OLoc : call[t].loc = {l}
    /\ call[t].pc \in Making \cup Made =>
          \E k \in OLoc : /\ call[t].tmp = {k}
                          /\ \/ call[t].pc = "annul" /\ call[t].loc = {}
                             \/ \E l \in OLoc : l # k /\ call[t].loc = {l}
    /\ call[t].file <= made
    /\ call[t].pc \in Made => call[t].file \in inHdf5
    /\ call[t].pc \in Made => \A k \in call[t].tmp \cap Listed(t) : refers[k] = call[t].file
    /\ \A l \in Handled(t) : tree[l] # NoOTree
    /\ call[t].before \subseteq held
    /\ call[t].pc = "store" =>
          /\ call[t].before # {} => call[t].found # NoOTree
          /\ call[t].found \in built \cup {NoOTree}

\* No locator belongs to two; no file is made twice.
OwnApart ==
    /\ \A t \in Opener : Own(t) \cap held = {}
    /\ \A t, u \in Opener : t # u =>
          /\ Own(t) \cap Own(u) = {}
          /\ call[t].pc \in Made /\ call[u].pc \in Made => call[t].file # call[u].file

ListRight ==
    /\ IsInjective(primaries)
    /\ \A l \in OLoc : l \in ToSet(primaries) <=> l \in held \/ \E t \in Opener : l \in Listed(t)
    /\ \A l \in ToSet(primaries) : refers[l] \in inHdf5 /\ tree[l] \in built \cup {NoOTree}
    /\ \A l \in held : tree[l] # NoOTree
    /\ primaries # <<>> => entry

OInv == OpeningTypeOK /\ (\A t \in Opener : CallOf(t)) /\ OwnApart /\ ListRight

-----------------------------------------------------------------------------
(* Opening: what the steps have in common *)

\* The types of the parts of a call.
LEMMA CallTyped ==
    ASSUME OpeningTypeOK, NEW t \in Opener
    PROVE  /\ call[t] \in Calls
           /\ call[t].pc \in {"idle"} \cup InOpen \cup Making \cup Made
           /\ call[t].loc \subseteq OLoc /\ call[t].tmp \subseteq OLoc
           /\ call[t].found \in OTree \cup {NoOTree} /\ call[t].file \in Nat
           /\ call[t].before \subseteq OLoc
           /\ Listed(t) \subseteq Own(t) /\ Own(t) \subseteq OLoc
<1>1. call[t] \in Calls
  BY DEF OpeningTypeOK
<1>2. /\ call[t].pc \in {"idle"} \cup InOpen \cup Making \cup Made
      /\ call[t].loc \subseteq OLoc /\ call[t].tmp \subseteq OLoc
      /\ call[t].found \in OTree \cup {NoOTree} /\ call[t].file \in Nat
      /\ call[t].before \subseteq OLoc
  BY <1>1 DEF Calls
<1>3. Listed(t) \subseteq Own(t) /\ Own(t) \subseteq OLoc
  BY <1>2 DEF Listed, Own
<1> QED
  BY <1>1, <1>2, <1>3

\* A call is not disturbed by a step of another thread that leaves its locators
\* alone, closes no file that it has made and frees no tree that it has found.
LEMMA OthersOk ==
    ASSUME OInv, NEW t \in Opener, \A u \in Opener : u # t => call'[u] = call[u],
           made' \in Nat, made <= made', held \subseteq held',
           \A u \in Opener : u # t =>
               /\ call[u].pc \in Made => call[u].file \in inHdf5'
               /\ \A l \in Own(u) : refers'[l] = refers[l] /\ tree'[l] = tree[l]
               /\ call[u].pc = "store" => call[u].found \in built' \cup {NoOTree}
    PROVE  \A u \in Opener : u # t => CallOf(u)'
<1> SUFFICES ASSUME NEW u \in Opener, u # t PROVE CallOf(u)'
  OBVIOUS
<1>1. CallOf(u) /\ call'[u] = call[u]
  BY DEF OInv
<1>2. Listed(u)' = Listed(u) /\ Handled(u)' = Handled(u) /\ Handled(u) \subseteq Listed(u)
  BY <1>1 DEF Listed, Handled
<1>3. Listed(u) \subseteq Own(u)
  BY CallTyped DEF OInv
<1>4. call'[u].file <= made'
  BY <1>1, CallTyped DEF CallOf, OInv, OpeningTypeOK
<1>5. /\ call'[u].pc \in Made => \A k \in call'[u].tmp \cap Listed(u)' : refers'[k] = call'[u].file
      /\ \A l \in Handled(u)' : tree'[l] # NoOTree
  BY <1>1, <1>2, <1>3 DEF CallOf
<1>6. /\ call'[u].before \subseteq held'
      /\ call'[u].pc \in Made => call'[u].file \in inHdf5'
      /\ call'[u].pc = "store" =>
          /\ call'[u].before # {} => call'[u].found # NoOTree
          /\ call'[u].found \in built' \cup {NoOTree}
  BY <1>1 DEF CallOf
<1> QED
  BY <1>1, <1>4, <1>5, <1>6 DEF CallOf

\* A thread takes locators that nobody has, and gives some of its own to the
\* program.
LEMMA ApartOk ==
    ASSUME OInv, NEW t \in Opener, \A u \in Opener : u # t => call'[u] = call[u],
           Own(t)' \subseteq Own(t) \cup Unused, held' \subseteq held \cup Own(t),
           Own(t)' \cap held' = {},
           \A u \in Opener : u # t /\ call[u].pc \in Made /\ call'[t].pc \in Made =>
               call'[t].file # call[u].file
    PROVE  OwnApart'
<1>1. \A u \in Opener : u # t => Own(u)' = Own(u)
  BY DEF Own
<1>2. \A u \in Opener : Own(u) \cap Unused = {}
  BY DEF Own, Unused, Pending
<1>3. \A u \in Opener : u # t => Own(u) \cap held = {} /\ Own(u) \cap Own(t) = {}
  BY DEF OInv, OwnApart
<1>4. \A u \in Opener : Own(u)' \cap held' = {}
  BY <1>1, <1>3
<1>5. ASSUME NEW u \in Opener, NEW v \in Opener, u # v
      PROVE  /\ Own(u)' \cap Own(v)' = {}
             /\ call'[u].pc \in Made /\ call'[v].pc \in Made => call'[u].file # call'[v].file
  <2>1. CASE u = t
    BY <1>1, <1>2, <1>3, <1>5, <2>1
  <2>2. CASE v = t
    BY <1>1, <1>2, <1>3, <1>5, <2>2
  <2>3. CASE u # t /\ v # t
    BY <1>1, <1>5, <2>3 DEF OInv, OwnApart
  <2> QED
    BY <2>1, <2>2, <2>3
<1> QED
  BY <1>4, <1>5 DEF OwnApart

\* The list stays as it is.
LEMMA ListSame ==
    ASSUME OInv, NEW t \in Opener, \A u \in Opener : u # t => call'[u] = call[u],
           primaries' = primaries, tree' = tree, refers' = refers, entry' = entry, held' = held,
           inHdf5 \subseteq inHdf5', built \subseteq built', Listed(t)' = Listed(t)
    PROVE  ListRight'
<1>1. \A u \in Opener : Listed(u)' = Listed(u)
  BY DEF Listed
<1> QED
  BY <1>1 DEF OInv, ListRight

\* The calls' locators that are not in the list.
LEMMA NotListed ==
    ASSUME OInv, NEW t \in Opener, NEW l \in Own(t), l \notin Listed(t)
    PROVE  l \in OLoc /\ l \notin ToSet(primaries) /\ l \notin held
<1>1. l \in OLoc /\ l \notin held
  BY CallTyped DEF OInv, OwnApart
<1>2. \A u \in Opener : u # t => l \notin Listed(u)
  BY CallTyped DEF OInv, OwnApart
<1> QED
  BY <1>1, <1>2 DEF OInv, ListRight

\* A locator is put at the head of the list.
LEMMA ListGrown ==
    ASSUME OInv, NEW t \in Opener, \A u \in Opener : u # t => call'[u] = call[u],
           NEW l \in Own(t), l \notin Listed(t), Listed(t)' = Listed(t) \cup {l},
           NEW f \in Nat, f \in inHdf5, NEW b \in OTree \cup {NoOTree}, b \in built \cup {NoOTree},
           primaries' = <<l>> \o primaries, refers' = [refers EXCEPT ![l] = f],
           tree' = [tree EXCEPT ![l] = b], entry' = TRUE,
           held' = held, inHdf5' = inHdf5, built' = built
    PROVE  /\ ListRight'
           /\ primaries' \in Seq(OLoc) /\ refers' \in [OLoc -> Nat]
           /\ tree' \in [OLoc -> OTree \cup {NoOTree}]
           /\ refers'[l] = f /\ tree'[l] = b
           /\ \A m : m # l => refers'[m] = refers[m] /\ tree'[m] = tree[m]
<1>1. l \in OLoc /\ l \notin ToSet(primaries) /\ l \notin held
  BY NotListed
<1>2. OpeningTypeOK /\ ListRight
  BY DEF OInv
<1>3. /\ <<l>> \o primaries \in Seq(OLoc)
      /\ ToSet(<<l>> \o primaries) = {l} \cup ToSet(primaries)
      /\ IsInjective(<<l>> \o primaries)
  <2>1. primaries \in Seq(OLoc) /\ IsInjective(primaries)
    BY <1>2 DEF OpeningTypeOK, ListRight
  <2> QED
    BY <1>1, <2>1, HeadOk
<1>4. /\ refers' \in [OLoc -> Nat] /\ tree' \in [OLoc -> OTree \cup {NoOTree}]
      /\ refers'[l] = f /\ tree'[l] = b
      /\ \A m : m # l => refers'[m] = refers[m] /\ tree'[m] = tree[m]
  <2>1. refers'[l] = f /\ tree'[l] = b
    BY <1>1, <1>2 DEF OpeningTypeOK
  <2>2. \A m : m # l => refers'[m] = refers[m] /\ tree'[m] = tree[m]
    BY <1>2 DEF OpeningTypeOK
  <2> QED
    BY <1>1, <1>2, <2>1, <2>2 DEF OpeningTypeOK
<1>5. \A u \in Opener : u # t => Listed(u)' = Listed(u)
  BY DEF Listed
<1>6. ListRight'
  <2>1. IsInjective(primaries') /\ ToSet(primaries') = {l} \cup ToSet(primaries)
    BY <1>3
  <2>2. \A m \in OLoc : m \in ToSet(primaries') <=> m \in held' \/ \E u \in Opener : m \in Listed(u)'
    BY <1>2, <1>5, <2>1 DEF ListRight
  <2>3. \A m \in ToSet(primaries') : refers'[m] \in inHdf5' /\ tree'[m] \in built' \cup {NoOTree}
    BY <1>2, <1>4, <2>1 DEF ListRight
  <2>4. \A m \in held' : tree'[m] # NoOTree
    BY <1>1, <1>2, <1>4 DEF ListRight
  <2> QED
    BY <2>1, <2>2, <2>3, <2>4 DEF ListRight
<1> QED
  BY <1>3, <1>4, <1>6

\* A locator is annulled: the file is closed if the list is empty afterwards.
LEMMA ListShrunk ==
    ASSUME OInv, NEW l \in ToSet(primaries), Dat1Annul(l),
           \A m \in OLoc : m \in held' \/ (\E u \in Opener : m \in Listed(u)') <=>
               m # l /\ (m \in held \/ \E u \in Opener : m \in Listed(u)),
           held' \subseteq OLoc, \A m \in held' : tree[m] # NoOTree
    PROVE  /\ ListRight'
           /\ primaries' \in Seq(OLoc) /\ refers' \in [OLoc -> Nat] /\ entry' \in BOOLEAN
           /\ tree' \in [OLoc -> OTree \cup {NoOTree}]
           /\ ToSet(primaries') = ToSet(primaries) \ {l}
           /\ \A m : m # l => refers'[m] = refers[m] /\ tree'[m] = tree[m]
           /\ primaries' # <<>> => inHdf5' = inHdf5 /\ built' = built
           /\ inHdf5 \ {refers[l]} \subseteq inHdf5'
<1>1. OpeningTypeOK /\ ListRight
  BY DEF OInv
<1>2. primaries \in Seq(OLoc) /\ l \in OLoc /\ IsInjective(primaries)
  BY <1>1 DEF OpeningTypeOK, ListRight, ToSet
<1>3. /\ primaries' \in Seq(OLoc) /\ IsInjective(primaries')
      /\ ToSet(primaries') = ToSet(primaries) \ {l}
  <2>1. primaries' = Without(primaries, l)
    BY DEF Dat1Annul
  <2> QED
    BY <1>2, <2>1, WithoutOk
<1>4. /\ refers' = [refers EXCEPT ![l] = 0] /\ tree' = [tree EXCEPT ![l] = NoOTree]
      /\ primaries' = <<>> => entry' = FALSE /\ inHdf5' = inHdf5 \ {refers[l]}
      /\ primaries' # <<>> => entry' = entry /\ inHdf5' = inHdf5 /\ built' = built
  BY DEF Dat1Annul
<1>5. /\ refers' \in [OLoc -> Nat] /\ tree' \in [OLoc -> OTree \cup {NoOTree}]
      /\ \A m : m # l => refers'[m] = refers[m] /\ tree'[m] = tree[m]
      /\ entry' \in BOOLEAN
  <2>1. refers' \in [OLoc -> Nat] /\ tree' \in [OLoc -> OTree \cup {NoOTree}]
    BY <1>1, <1>4 DEF OpeningTypeOK
  <2>2. \A m : m # l => refers'[m] = refers[m] /\ tree'[m] = tree[m]
    BY <1>1, <1>4 DEF OpeningTypeOK
  <2>3. entry' \in BOOLEAN
    BY <1>1, <1>4 DEF OpeningTypeOK
  <2> QED
    BY <2>1, <2>2, <2>3
<1>6. \A m \in OLoc : m \in ToSet(primaries') <=> m \in held' \/ \E u \in Opener : m \in Listed(u)'
  BY <1>1, <1>3 DEF ListRight
<1>7. ToSet(<<>>) = {}
  BY DEF ToSet
<1>8. \A m \in ToSet(primaries') : refers'[m] \in inHdf5' /\ tree'[m] \in built' \cup {NoOTree}
  <2> SUFFICES ASSUME NEW m \in ToSet(primaries')
               PROVE  refers'[m] \in inHdf5' /\ tree'[m] \in built' \cup {NoOTree}
    OBVIOUS
  <2>1. primaries' # <<>> /\ m # l /\ m \in ToSet(primaries)
    BY <1>3, <1>7
  <2> QED
    BY <1>1, <1>4, <1>5, <2>1 DEF ListRight
<1>9. \A m \in held' : tree'[m] # NoOTree
  <2>1. l \notin held'
    BY <1>2
  <2> QED
    BY <1>5, <2>1
<1>10. primaries' # <<>> => entry'
  <2>1. primaries # <<>>
    BY <1>7
  <2> QED
    BY <1>1, <1>4, <2>1 DEF ListRight
<1>11. ListRight'
  BY <1>3, <1>6, <1>8, <1>9, <1>10 DEF ListRight
<1> QED
  BY <1>3, <1>4, <1>5, <1>11

-----------------------------------------------------------------------------
(* Opening: the steps *)

\* A thread that is in no call.
LEMMA IdlingOk ==
    /\ Idling \in Calls /\ Idling.pc = "idle" /\ Idling.loc = {} /\ Idling.tmp = {}
    /\ Idling.found = NoOTree /\ Idling.file = 0 /\ Idling.before = {}
  BY DEF Idling, Calls

\* A thread returns: it keeps no locator of its call.
LEMMA ReturnOk ==
    ASSUME NEW t \in Opener, call'[t] = Idling, made' \in Nat
    PROVE  CallOf(t)' /\ Own(t)' = {} /\ Listed(t)' = {}
<1>1. Own(t)' = {} /\ Listed(t)' = {} /\ Handled(t)' = {}
  BY IdlingOk DEF Own, Listed, Handled
<1> QED
  BY <1>1, IdlingOk DEF CallOf, InOpen, Making, Made

\* A call that only says where it is.
LEMMA GotoOk ==
    ASSUME OpeningTypeOK, NEW t \in Opener, NEW pc \in {"idle"} \cup InOpen \cup Making \cup Made,
           Goto(t, pc)
    PROVE  /\ call' \in [Opener -> Calls]
           /\ call'[t].pc = pc /\ call'[t].loc = call[t].loc /\ call'[t].tmp = call[t].tmp
           /\ call'[t].found = call[t].found /\ call'[t].file = call[t].file
           /\ call'[t].before = call[t].before
           /\ \A u \in Opener : u # t => call'[u] = call[u]
<1>1. call' = [call EXCEPT ![t].pc = pc]
  BY DEF Goto
<1>2. [call[t] EXCEPT !.pc = pc] \in Calls
  BY CallTyped DEF Calls
<1>3. call' \in [Opener -> Calls]
  BY <1>1, <1>2 DEF OpeningTypeOK
<1> QED
  BY <1>1, <1>3, CallTyped DEF OpeningTypeOK, Calls

\* The locators that are free.
LEMMA FirstOfIn == ASSUME NEW S, NEW x \in FirstOf(S) PROVE x \in S
  BY DEF FirstOf

\* hdsOpen begins.
LEMMA OpenBeginInv ==
    ASSUME OInv, NEW t \in Opener, OpenBegin(t)
    PROVE  OInv'
<1>1. PICK l \in Unused :
        call' = [call EXCEPT ![t] = [Idling EXCEPT !.pc = "open", !.loc = {l}, !.before = held]]
  BY FirstOfIn DEF OpenBegin
<1>2. /\ ~Busy(t)
      /\ disk' = disk /\ made' = made /\ inHdf5' = inHdf5 /\ entry' = entry /\ held' = held
      /\ primaries' = primaries /\ tree' = tree /\ refers' = refers /\ built' = built
  BY DEF OpenBegin
<1>3. OpeningTypeOK /\ CallOf(t) /\ l \in OLoc /\ l \notin held
  BY DEF OInv, Unused
<1>4. call'[t] = [Idling EXCEPT !.pc = "open", !.loc = {l}, !.before = held]
      /\ \A u \in Opener : u # t => call'[u] = call[u]
  BY <1>1, <1>3 DEF OpeningTypeOK
<1>5. /\ call'[t].pc = "open" /\ call'[t].loc = {l} /\ call'[t].before = held
      /\ call'[t].tmp = {} /\ call'[t].found = NoOTree /\ call'[t].file = 0
  BY <1>4 DEF Idling
<1>6. call[t] = Idling
  BY <1>2, <1>3 DEF Busy, CallOf
<1>7. OpeningTypeOK'
  <2>1. [Idling EXCEPT !.pc = "open", !.loc = {l}, !.before = held] \in Calls
    BY <1>3 DEF Idling, Calls, OpeningTypeOK, InOpen
  <2>2. call' \in [Opener -> Calls]
    BY <1>1, <1>3, <2>1 DEF OpeningTypeOK
  <2> QED
    BY <1>2, <1>3, <2>2 DEF OpeningTypeOK
<1>8. Listed(t) = {} /\ Listed(t)' = {} /\ Own(t) = {} /\ Own(t)' = {l} /\ Handled(t)' = {}
  BY <1>5, <1>6, IdlingOk DEF Listed, Own, Handled
<1>9. ListRight'
  BY <1>2, <1>4, <1>8, ListSame
<1>10. \A u \in Opener : u # t => CallOf(u)'
  <2>1. \A u \in Opener : u # t => (call[u].pc \in Made => call[u].file \in inHdf5') /\
                                   (call[u].pc = "store" => call[u].found \in built' \cup {NoOTree})
    BY <1>2 DEF OInv, CallOf
  <2>2. made' \in Nat /\ made <= made'
    BY <1>2, <1>3 DEF OpeningTypeOK
  <2> QED
    BY <1>2, <1>4, <2>1, <2>2, OthersOk
<1>11. OwnApart'
  <2>1. call'[t].pc \notin Made
    BY <1>5 DEF Made
  <2> QED
    BY <1>1, <1>2, <1>3, <1>4, <1>8, <2>1, ApartOk
<1>12. CallOf(t)'
  BY <1>2, <1>3, <1>5, <1>8 DEF CallOf, OpeningTypeOK, InOpen, Making, Made
<1> QED
  BY <1>7, <1>9, <1>10, <1>11, <1>12 DEF OInv

\* A step in which a thread returns without a locator, or goes on to a place
\* where its locators are in the list as before; no locator changes.
LEMMA StayOk ==
    ASSUME OInv, NEW t \in Opener, \A u \in Opener : u # t => call'[u] = call[u],
           made' \in Nat, made <= made', inHdf5 \subseteq inHdf5',
           primaries' = primaries, tree' = tree, refers' = refers, built' = built,
           entry' = entry, held' = held,
           Own(t)' \subseteq Own(t) \cup Unused, Own(t)' \cap held = {}, Listed(t)' = Listed(t),
           \A u \in Opener : u # t /\ call[u].pc \in Made /\ call'[t].pc \in Made =>
               call'[t].file # call[u].file
    PROVE  ListRight' /\ OwnApart' /\ \A u \in Opener : u # t => CallOf(u)'
<1>1. ListRight'
  BY ListSame
<1>2. OwnApart'
  BY ApartOk
<1>3. \A u \in Opener : u # t =>
         /\ call[u].pc \in Made => call[u].file \in inHdf5'
         /\ call[u].pc = "store" => call[u].found \in built' \cup {NoOTree}
  BY DEF OInv, CallOf
<1>4. \A u \in Opener : u # t => CallOf(u)'
  BY <1>3, OthersOk
<1> QED
  BY <1>1, <1>2, <1>4

\* The call ends before its locators were put in the list.
LEMMA GiveUpInv ==
    ASSUME OInv, NEW t \in Opener, Finish(t), Listed(t) = {},
           disk' \in Nat, made' = made, disk' <= made',
           UNCHANGED <<inHdf5, entry, primaries, tree, refers, built, held>>
    PROVE  OInv'
<1>1. OpeningTypeOK
  BY DEF OInv
<1>2. call'[t] = Idling /\ (\A u \in Opener : u # t => call'[u] = call[u])
      /\ call' \in [Opener -> Calls]
  BY <1>1, IdlingOk DEF Finish, OpeningTypeOK
<1>3. OpeningTypeOK'
  BY <1>1, <1>2 DEF OpeningTypeOK
<1>4. CallOf(t)' /\ Own(t)' = {} /\ Listed(t)' = {}
  BY <1>2, <1>3, ReturnOk DEF OpeningTypeOK
<1>5. ListRight' /\ OwnApart' /\ \A u \in Opener : u # t => CallOf(u)'
  <2>1. made' \in Nat /\ made <= made'
    BY <1>1 DEF OpeningTypeOK
  <2>2. call'[t].pc \notin Made
    BY <1>2, IdlingOk DEF Made
  <2> QED
    BY <1>2, <1>4, <2>1, <2>2, StayOk
<1> QED
  BY <1>3, <1>4, <1>5 DEF OInv

\* H5Fopen.
LEMMA OpenFileInv ==
    ASSUME OInv, NEW t \in Opener, OpenFile(t)
    PROVE  OInv'
<1>1. /\ call[t].pc = "open"
      /\ disk' = disk /\ made' = made /\ entry' = entry /\ held' = held
      /\ primaries' = primaries /\ tree' = tree /\ refers' = refers /\ built' = built
  BY DEF OpenFile
<1>2. OpeningTypeOK /\ CallOf(t)
  BY DEF OInv
<1>3. Listed(t) = {}
  BY <1>1 DEF Listed
<1>4. CASE disk = 0
  <2>1. Finish(t) /\ inHdf5' = inHdf5
    BY <1>4 DEF OpenFile
  <2> QED
    BY <1>1, <1>2, <1>3, <2>1, GiveUpInv DEF OpeningTypeOK
<1>5. CASE disk # 0
  <2>1. /\ inHdf5' = inHdf5 \cup {disk}
        /\ call' = [call EXCEPT ![t].pc = "register", ![t].file = disk]
    BY <1>5 DEF OpenFile
  <2>2. /\ call'[t].pc = "register" /\ call'[t].loc = call[t].loc /\ call'[t].tmp = call[t].tmp
        /\ call'[t].found = call[t].found /\ call'[t].file = disk
        /\ call'[t].before = call[t].before
        /\ \A u \in Opener : u # t => call'[u] = call[u]
    BY <1>2, <2>1, CallTyped DEF OpeningTypeOK, Calls
  <2>3. OpeningTypeOK'
    <3>1. [call[t] EXCEPT !.pc = "register", !.file = disk] \in Calls
      BY <1>2, CallTyped DEF Calls, InOpen, OpeningTypeOK
    <3>2. call' = [call EXCEPT ![t] = [call[t] EXCEPT !.pc = "register", !.file = disk]]
      BY <1>2, <2>1 DEF OpeningTypeOK
    <3>3. call' \in [Opener -> Calls]
      BY <1>2, <3>1, <3>2 DEF OpeningTypeOK
    <3> QED
      BY <1>1, <1>2, <3>3 DEF OpeningTypeOK
  <2>4. Own(t)' = Own(t) /\ Listed(t)' = {} /\ Handled(t)' = {}
    BY <2>2 DEF Own, Listed, Handled
  <2>5. ListRight' /\ OwnApart' /\ \A u \in Opener : u # t => CallOf(u)'
    <3>1. made' \in Nat /\ made <= made' /\ inHdf5 \subseteq inHdf5'
      BY <1>1, <1>2, <2>1 DEF OpeningTypeOK
    <3>2. call'[t].pc \notin Made
      BY <2>2 DEF Made
    <3>3. Own(t)' \cap held = {}
      BY <2>4 DEF OInv, OwnApart
    <3> QED
      BY <1>1, <1>3, <2>2, <2>4, <3>1, <3>2, <3>3, StayOk
  <2>6. CallOf(t)'
    BY <1>1, <1>2, <2>2, <2>4 DEF CallOf, OpeningTypeOK, InOpen, Making, Made
  <2> QED
    BY <2>3, <2>5, <2>6 DEF OInv
<1> QED
  BY <1>4, <1>5

\* hds1RegLocator, if the file is still open.
LEMMA OpenRegisterInv ==
    ASSUME OInv, NEW t \in Opener, OpenRegister(t)
    PROVE  OInv'
<1>1. /\ call[t].pc = "register"
      /\ disk' = disk /\ made' = made /\ inHdf5' = inHdf5 /\ built' = built /\ held' = held
  BY DEF OpenRegister
<1>2. OpeningTypeOK /\ CallOf(t)
  BY DEF OInv
<1>3. Listed(t) = {}
  BY <1>1 DEF Listed
<1>4. CASE call[t].file \notin inHdf5
  <2>1. /\ Finish(t) /\ entry' = entry /\ primaries' = primaries
        /\ refers' = refers /\ tree' = tree
    BY <1>4 DEF OpenRegister
  <2> QED
    BY <1>1, <1>2, <1>3, <2>1, GiveUpInv DEF OpeningTypeOK
<1>5. CASE call[t].file \in inHdf5
  <2>1. PICK l \in OLoc : call[t].loc = {l} /\ call[t].tmp = {}
    BY <1>1, <1>2 DEF CallOf, InOpen
  <2>2. RegLocator(l, call[t].file) /\ Goto(t, "find")
    BY <1>5, <2>1 DEF OpenRegister
  <2>3. PICK f \in Nat : f = call[t].file /\ f \in inHdf5
    BY <1>2, <1>5, CallTyped
  <2>4. /\ call' \in [Opener -> Calls]
        /\ call'[t].pc = "find" /\ call'[t].loc = call[t].loc /\ call'[t].tmp = call[t].tmp
        /\ call'[t].found = call[t].found /\ call'[t].file = call[t].file
        /\ call'[t].before = call[t].before
        /\ \A u \in Opener : u # t => call'[u] = call[u]
    <3>1. "find" \in {"idle"} \cup InOpen \cup Making \cup Made
      BY DEF InOpen
    <3> QED
      BY <1>2, <2>2, <3>1, GotoOk
  <2>5. /\ Own(t) = {l} /\ Own(t)' = {l} /\ Listed(t)' = {l} /\ Handled(t)' = {}
    BY <2>1, <2>4 DEF Own, Listed, Handled
  <2>6. /\ ListRight'
        /\ primaries' \in Seq(OLoc) /\ refers' \in [OLoc -> Nat]
        /\ tree' \in [OLoc -> OTree \cup {NoOTree}]
        /\ \A m : m # l => refers'[m] = refers[m] /\ tree'[m] = tree[m]
    <3>1. l \in Own(t) /\ l \notin Listed(t) /\ Listed(t)' = Listed(t) \cup {l}
      BY <1>3, <2>5
    <3>2. /\ primaries' = <<l>> \o primaries /\ refers' = [refers EXCEPT ![l] = f]
          /\ tree' = [tree EXCEPT ![l] = NoOTree] /\ entry' = TRUE
      BY <2>2, <2>3 DEF RegLocator
    <3>3. PICK b \in OTree \cup {NoOTree} : b = NoOTree
      OBVIOUS
    <3>4. tree' = [tree EXCEPT ![l] = b] /\ b \in built \cup {NoOTree}
      BY <3>2, <3>3
    <3>5. l \in Own(t) /\ f \in Nat /\ b \in OTree \cup {NoOTree} /\ f \in inHdf5
      BY <2>3, <3>1
    <3>6. held' = held /\ inHdf5' = inHdf5 /\ built' = built
      BY <1>1
    <3>7. \A u \in Opener : u # t => call'[u] = call[u]
      BY <2>4
    <3> QED
      BY ZenonT(40), <3>1, <3>2, <3>4, <3>5, <3>6, <3>7, ListGrown
  <2>7. OpeningTypeOK'
    BY <1>1, <1>2, <2>2, <2>4, <2>6 DEF OpeningTypeOK, RegLocator
  <2>8. OwnApart'
    <3>1. call'[t].pc \notin Made
      BY <2>4 DEF Made
    <3>2. Own(t)' \cap held' = {}
      BY <1>1, <2>5 DEF OInv, OwnApart
    <3> QED
      BY <1>1, <2>4, <2>5, <3>1, <3>2, ApartOk
  <2>9. \A u \in Opener : u # t => CallOf(u)'
    <3>1. \A u \in Opener : u # t => \A m \in Own(u) : refers'[m] = refers[m] /\ tree'[m] = tree[m]
      BY <2>5, <2>6 DEF OInv, OwnApart
    <3>2. \A u \in Opener : u # t =>
            /\ call[u].pc \in Made => call[u].file \in inHdf5'
            /\ call[u].pc = "store" => call[u].found \in built' \cup {NoOTree}
      BY <1>1 DEF OInv, CallOf
    <3>3. made' \in Nat /\ made <= made'
      BY <1>1, <1>2 DEF OpeningTypeOK
    <3> QED
      BY <1>1, <2>4, <3>1, <3>2, <3>3, OthersOk
  <2>10. CallOf(t)'
    BY <1>1, <1>2, <2>1, <2>4, <2>5 DEF CallOf, InOpen, Making, Made
  <2> QED
    BY <2>6, <2>7, <2>8, <2>9, <2>10 DEF OInv
<1> QED
  BY <1>4, <1>5

\* A call is replaced by another.
LEMMA CallSet ==
    ASSUME OpeningTypeOK, NEW t \in Opener, NEW c \in Calls, call' = [call EXCEPT ![t] = c]
    PROVE  /\ call' \in [Opener -> Calls] /\ call'[t] = c
           /\ \A u \in Opener : u # t => call'[u] = call[u]
BY DEF OpeningTypeOK

\* hds1FindHandle finds a tree that exists, and does so if the program has a
\* locator, for all the locators in the list that have no Handle yet.
LEMMA FindHandleOk ==
    ASSUME OInv
    PROVE  /\ FindHandle \in OTree \cup {NoOTree} /\ FindHandle \in built \cup {NoOTree}
           /\ held # {} => FindHandle # NoOTree
<1> DEFINE with == {i \in DOMAIN primaries : tree[primaries[i]] # NoOTree}
           n == Len(primaries)
<1>1. OpeningTypeOK /\ ListRight
  BY DEF OInv
<1>2. n \in Nat /\ DOMAIN primaries = 1..n /\ \A i \in 1..n : primaries[i] \in OLoc
  BY <1>1 DEF OpeningTypeOK
<1>3. \A i \in 1..n : primaries[i] \in ToSet(primaries)
  BY <1>2 DEF ToSet
<1>4. FindHandle = IF with = {} THEN NoOTree ELSE tree[primaries[Min(with)]]
  BY DEF FindHandle
<1>5. CASE with = {}
  <2>1. FindHandle = NoOTree
    BY <1>4, <1>5
  <2>2. ASSUME NEW l \in held PROVE FALSE
    <3>1. l \in ToSet(primaries) /\ tree[l] # NoOTree
      BY <1>1, <2>2 DEF ListRight, OpeningTypeOK
    <3>2. PICK i \in DOMAIN primaries : primaries[i] = l
      BY <3>1 DEF ToSet
    <3> QED
      BY <1>5, <3>1, <3>2
  <2> QED
    BY <2>1, <2>2
<1>6. CASE with # {}
  <2>1. Min(with) \in with
    BY <1>2, <1>6, FirstPosition
  <2>2. PICK l \in OLoc : l = primaries[Min(with)] /\ l \in ToSet(primaries) /\ tree[l] # NoOTree
    BY <1>2, <1>3, <2>1
  <2>3. FindHandle = tree[l]
    BY <1>4, <1>6, <2>2
  <2> QED
    BY <1>1, <2>2, <2>3 DEF OpeningTypeOK, ListRight
<1> QED
  BY <1>5, <1>6

\* hds1FindHandle in hdsOpen.
LEMMA OpenFindInv ==
    ASSUME OInv, NEW t \in Opener, OpenFind(t)
    PROVE  OInv'
<1>1. /\ call[t].pc = "find"
      /\ disk' = disk /\ made' = made /\ inHdf5' = inHdf5 /\ entry' = entry /\ held' = held
      /\ primaries' = primaries /\ tree' = tree /\ refers' = refers /\ built' = built
  BY DEF OpenFind
<1>2. OpeningTypeOK /\ CallOf(t)
  BY DEF OInv
<1>3. PICK b \in OTree \cup {NoOTree} :
        /\ b = FindHandle /\ b \in built \cup {NoOTree}
        /\ held # {} => b # NoOTree
  BY FindHandleOk
<1>4. PICK c \in Calls : c = [call[t] EXCEPT !.pc = "store", !.found = b]
  BY <1>2, CallTyped DEF Calls, InOpen
<1>5. call' = [call EXCEPT ![t] = c]
  BY <1>3, <1>4, <1>2 DEF OpenFind, OpeningTypeOK
<1>6. /\ call' \in [Opener -> Calls] /\ call'[t] = c
      /\ \A u \in Opener : u # t => call'[u] = call[u]
  BY <1>2, <1>5, CallSet
<1>7. /\ call'[t].pc = "store" /\ call'[t].loc = call[t].loc /\ call'[t].tmp = call[t].tmp
      /\ call'[t].found = b /\ call'[t].file = call[t].file
      /\ call'[t].before = call[t].before
  BY <1>2, <1>4, <1>6, CallTyped DEF Calls
<1>8. Own(t)' = Own(t) /\ Listed(t)' = Listed(t) /\ Handled(t)' = {}
  BY <1>1, <1>7 DEF Own, Listed, Handled
<1>9. ListRight' /\ OwnApart' /\ \A u \in Opener : u # t => CallOf(u)'
  <2>1. made' \in Nat /\ made <= made' /\ inHdf5 \subseteq inHdf5'
    BY <1>1, <1>2 DEF OpeningTypeOK
  <2>2. call'[t].pc \notin Made
    BY <1>7 DEF Made
  <2>3. Own(t)' \cap held = {}
    BY <1>8 DEF OInv, OwnApart
  <2> QED
    BY <1>1, <1>6, <1>8, <2>1, <2>2, <2>3, StayOk
<1>10. CallOf(t)'
  BY <1>1, <1>2, <1>3, <1>7, <1>8 DEF CallOf, InOpen, Making, Made
<1>11. OpeningTypeOK'
  BY <1>1, <1>2, <1>6 DEF OpeningTypeOK
<1> QED
  BY <1>9, <1>10, <1>11 DEF OInv

\* The tree that a locator is given.
LEMMA GivenTree ==
    ASSUME OInv, NEW b \in NewTree
    PROVE  b \in OTree /\ b # NoOTree
BY OpeningAssumption, FirstOfIn DEF NewTree

\* The Handle is stored in the locator, which is returned.
LEMMA OpenStoreInv ==
    ASSUME OInv, NEW t \in Opener, OpenStore(t)
    PROVE  OInv'
<1>1. /\ call[t].pc = "store"
      /\ disk' = disk /\ made' = made /\ inHdf5' = inHdf5 /\ entry' = entry
      /\ primaries' = primaries /\ refers' = refers
      /\ Finish(t)
  BY DEF OpenStore
<1>2. OpeningTypeOK /\ CallOf(t) /\ ListRight
  BY DEF OInv
<1>3. PICK l \in OLoc : call[t].loc = {l} /\ call[t].tmp = {}
  BY <1>1, <1>2 DEF CallOf, InOpen
<1>4. PICK b \in IF call[t].found # NoOTree THEN {call[t].found} ELSE NewTree :
        /\ built' = IF call[t].found # NoOTree THEN built ELSE built \cup {b}
        /\ tree' = [tree EXCEPT ![l] = b]
        /\ held' = held \cup {l}
  BY <1>3 DEF OpenStore
<1>5. b \in OTree /\ b # NoOTree /\ b \in built' /\ built \subseteq built'
  <2>1. CASE call[t].found # NoOTree
    BY <1>1, <1>2, <1>4, <2>1, CallTyped DEF CallOf
  <2>2. CASE call[t].found = NoOTree
    BY <1>4, <2>2, GivenTree
  <2> QED
    BY <2>1, <2>2
<1>6. call'[t] = Idling /\ (\A u \in Opener : u # t => call'[u] = call[u])
      /\ call' \in [Opener -> Calls]
  BY <1>1, <1>2, IdlingOk DEF Finish, OpeningTypeOK
<1>7. tree'[l] = b /\ (\A m : m # l => tree'[m] = tree[m]) /\ tree' \in [OLoc -> OTree \cup {NoOTree}]
  BY <1>2, <1>4, <1>5 DEF OpeningTypeOK
<1>8. OpeningTypeOK'
  BY <1>1, <1>2, <1>4, <1>6, <1>7 DEF OpeningTypeOK
<1>9. CallOf(t)' /\ Own(t)' = {} /\ Listed(t)' = {}
  BY <1>6, <1>8, ReturnOk DEF OpeningTypeOK
<1>10. Own(t) = {l} /\ Listed(t) = {l}
  BY <1>1, <1>3 DEF Own, Listed
<1>11. ListRight'
  <2>1. \A u \in Opener : u # t => Listed(u)' = Listed(u)
    BY <1>6 DEF Listed
  <2>2. \A m \in OLoc : m \in ToSet(primaries') <=> m \in held' \/ \E u \in Opener : m \in Listed(u)'
    BY <1>1, <1>2, <1>4, <1>9, <1>10, <2>1 DEF ListRight
  <2>3. \A m \in ToSet(primaries') : refers'[m] \in inHdf5' /\ tree'[m] \in built' \cup {NoOTree}
    BY <1>1, <1>2, <1>5, <1>7 DEF ListRight
  <2>4. \A m \in held' : tree'[m] # NoOTree
    BY <1>2, <1>4, <1>5, <1>7 DEF ListRight
  <2> QED
    BY <1>1, <1>2, <2>2, <2>3, <2>4 DEF ListRight
<1>12. OwnApart'
  <2>1. call'[t].pc \notin Made
    BY <1>6, IdlingOk DEF Made
  <2> QED
    BY <1>4, <1>6, <1>9, <1>10, <2>1, ApartOk
<1>13. \A u \in Opener : u # t => CallOf(u)'
  <2>1. \A u \in Opener : u # t => \A m \in Own(u) : refers'[m] = refers[m] /\ tree'[m] = tree[m]
    BY <1>1, <1>7, <1>10 DEF OInv, OwnApart
  <2>2. \A u \in Opener : u # t =>
          /\ call[u].pc \in Made => call[u].file \in inHdf5'
          /\ call[u].pc = "store" => call[u].found \in built' \cup {NoOTree}
    BY <1>1, <1>5 DEF OInv, CallOf
  <2>3. made' \in Nat /\ made <= made' /\ held \subseteq held'
    BY <1>1, <1>2, <1>4 DEF OpeningTypeOK
  <2> QED
    BY <1>6, <2>1, <2>2, <2>3, OthersOk
<1> QED
  BY <1>8, <1>9, <1>11, <1>12, <1>13 DEF OInv

\* hdsNew begins, or finds that the path is open.
LEMMA NewBeginInv ==
    ASSUME OInv, NEW t \in Opener, NewBegin(t)
    PROVE  OInv'
<1>1. /\ ~Busy(t)
      /\ disk' = disk /\ made' = made /\ inHdf5' = inHdf5 /\ entry' = entry /\ held' = held
      /\ primaries' = primaries /\ tree' = tree /\ refers' = refers /\ built' = built
  BY DEF NewBegin
<1>2. OpeningTypeOK /\ CallOf(t)
  BY DEF OInv
<1>3. call[t] = Idling
  BY <1>1, <1>2 DEF Busy, CallOf
<1>4. Listed(t) = {} /\ Own(t) = {}
  BY <1>3, IdlingOk DEF Listed, Own
<1>5. CASE IsOpen
  <2>1. Finish(t)
    BY <1>5 DEF NewBegin
  <2> QED
    BY <1>1, <1>2, <1>4, <2>1, GiveUpInv DEF OpeningTypeOK
<1>6. CASE ~IsOpen
  <2>0. PICK k \in FirstOf(Unused) : \E l \in FirstOf(Unused \ {k}) :
          call' = [call EXCEPT ![t] = [Idling EXCEPT !.pc = "create", !.loc = {l}, !.tmp = {k}]]
    BY <1>6 DEF NewBegin
  <2>1. PICK l \in FirstOf(Unused \ {k}) :
          call' = [call EXCEPT ![t] = [Idling EXCEPT !.pc = "create", !.loc = {l}, !.tmp = {k}]]
    BY <2>0
  <2>2. k \in Unused /\ l \in Unused /\ l # k
    BY FirstOfIn
  <2>3. k \in OLoc /\ l \in OLoc /\ k \notin held /\ l \notin held
    BY <2>2 DEF Unused
  <2>4. PICK c \in Calls : c = [Idling EXCEPT !.pc = "create", !.loc = {l}, !.tmp = {k}]
    BY <2>3 DEF Idling, Calls, Making
  <2>5. call' \in [Opener -> Calls] /\ call'[t] = c /\ \A u \in Opener : u # t => call'[u] = call[u]
    BY <1>2, <2>1, <2>4, CallSet
  <2>6. /\ call'[t].pc = "create" /\ call'[t].loc = {l} /\ call'[t].tmp = {k}
        /\ call'[t].found = NoOTree /\ call'[t].file = 0 /\ call'[t].before = {}
    BY <2>4, <2>5 DEF Idling
  <2>7. Own(t)' = {k, l} /\ Listed(t)' = {} /\ Handled(t)' = {}
    BY <2>6 DEF Own, Listed, Handled
  <2>8. ListRight' /\ OwnApart' /\ \A u \in Opener : u # t => CallOf(u)'
    <3>1. made' \in Nat /\ made <= made' /\ inHdf5 \subseteq inHdf5'
      BY <1>1, <1>2 DEF OpeningTypeOK
    <3>2. call'[t].pc \notin Made
      BY <2>6 DEF Made
    <3>3. Own(t)' \subseteq Own(t) \cup Unused /\ Own(t)' \cap held = {}
      BY <2>2, <2>3, <2>7
    <3> QED
      BY <1>1, <1>4, <2>5, <2>7, <3>1, <3>2, <3>3, StayOk
  <2>9. CallOf(t)'
    BY <1>1, <1>2, <2>2, <2>3, <2>6, <2>7 DEF CallOf, OpeningTypeOK, InOpen, Making, Made
  <2>10. OpeningTypeOK'
    BY <1>1, <1>2, <2>5 DEF OpeningTypeOK
  <2> QED
    BY <2>8, <2>9, <2>10 DEF OInv
<1> QED
  BY <1>5, <1>6

\* H5Fcreate.
LEMMA NewCreateInv ==
    ASSUME OInv, NEW t \in Opener, NewCreate(t)
    PROVE  OInv'
<1>1. /\ call[t].pc = "create"
      /\ entry' = entry /\ held' = held
      /\ primaries' = primaries /\ tree' = tree /\ refers' = refers /\ built' = built
  BY DEF NewCreate
<1>2. OpeningTypeOK /\ CallOf(t)
  BY DEF OInv
<1>3. Listed(t) = {} /\ Own(t) \cap held = {}
  BY <1>1 DEF Listed, OInv, OwnApart
<1>4. PICK k \in OLoc, l \in OLoc : call[t].tmp = {k} /\ call[t].loc = {l} /\ l # k
  BY <1>1, <1>2 DEF CallOf, Making
<1>5. CASE disk \in inHdf5
  <2>1. Goto(t, "unlink") /\ disk' = disk /\ made' = made /\ inHdf5' = inHdf5
    BY <1>5 DEF NewCreate
  <2>2. "unlink" \in {"idle"} \cup InOpen \cup Making \cup Made
    BY DEF Making
  <2>3. /\ call' \in [Opener -> Calls]
        /\ call'[t].pc = "unlink" /\ call'[t].loc = call[t].loc /\ call'[t].tmp = call[t].tmp
        /\ call'[t].found = call[t].found /\ call'[t].file = call[t].file
        /\ call'[t].before = call[t].before
        /\ \A u \in Opener : u # t => call'[u] = call[u]
    BY <1>2, <2>1, <2>2, GotoOk
  <2>4. Own(t)' = Own(t) /\ Listed(t)' = {} /\ Handled(t)' = {}
    BY <2>3 DEF Own, Listed, Handled
  <2>5. ListRight' /\ OwnApart' /\ \A u \in Opener : u # t => CallOf(u)'
    <3>1. made' \in Nat /\ made <= made' /\ inHdf5 \subseteq inHdf5'
      BY <1>2, <2>1 DEF OpeningTypeOK
    <3>2. call'[t].pc \notin Made
      BY <2>3 DEF Made
    <3> QED
      BY <1>1, <1>3, <2>3, <2>4, <3>1, <3>2, StayOk
  <2>6. CallOf(t)'
    BY <1>1, <1>2, <1>4, <2>1, <2>3, <2>4 DEF CallOf, InOpen, Making, Made
  <2>7. OpeningTypeOK'
    BY <1>1, <1>2, <2>1, <2>3 DEF OpeningTypeOK
  <2> QED
    BY <2>5, <2>6, <2>7 DEF OInv
<1>6. CASE disk \notin inHdf5
  <2>1. /\ made' = made + 1 /\ disk' = made + 1 /\ inHdf5' = inHdf5 \cup {made + 1}
        /\ call' = [call EXCEPT ![t].pc = "registertmp", ![t].file = made + 1]
    BY <1>6 DEF NewCreate
  <2>2. made \in Nat /\ made + 1 \in Nat /\ made' \in Nat /\ made + 1 <= made'
    BY <1>2, <2>1 DEF OpeningTypeOK
  <2>3. PICK c \in Calls : c = [call[t] EXCEPT !.pc = "registertmp", !.file = made + 1]
    <3>1. [call[t] EXCEPT !.pc = "registertmp", !.file = made + 1] \in Calls
      BY <1>2, <2>2, CallTyped DEF Calls, Made
    <3> QED
      BY <3>1
  <2>4. call' = [call EXCEPT ![t] = c]
    BY <1>2, <2>1, <2>3 DEF OpeningTypeOK
  <2>5. /\ call' \in [Opener -> Calls] /\ call'[t] = c
        /\ \A u \in Opener : u # t => call'[u] = call[u]
    BY <1>2, <2>4, CallSet
  <2>6. /\ call'[t].pc = "registertmp" /\ call'[t].loc = call[t].loc
        /\ call'[t].tmp = call[t].tmp /\ call'[t].found = call[t].found
        /\ call'[t].file = made + 1 /\ call'[t].before = call[t].before
    BY <1>2, <2>3, <2>5, CallTyped DEF Calls
  <2>7. Own(t)' = Own(t) /\ Listed(t)' = {} /\ Handled(t)' = {}
    BY <2>6 DEF Own, Listed, Handled
  <2>8. ListRight' /\ OwnApart' /\ \A u \in Opener : u # t => CallOf(u)'
    <3>1. made' \in Nat /\ made <= made' /\ inHdf5 \subseteq inHdf5'
      BY <2>1, <2>2
    <3>2. ASSUME NEW u \in Opener PROVE call[u].file # made + 1
      <4>1. call[u].file <= made /\ call[u].file \in Nat
        BY <1>2, CallTyped DEF OInv, CallOf
      <4> QED
        BY <2>2, <4>1
    <3>3. \A u \in Opener : u # t /\ call[u].pc \in Made /\ call'[t].pc \in Made =>
             call'[t].file # call[u].file
      BY <2>6, <3>2
    <3> QED
      BY <1>1, <1>3, <2>5, <2>7, <3>1, <3>3, StayOk
  <2>9. CallOf(t)'
    <3>1. call'[t].file <= made' /\ call'[t].file \in inHdf5' /\ call'[t].before \subseteq held'
      <4>1. call'[t].file <= made' /\ call'[t].file \in inHdf5'
        BY <2>1, <2>2, <2>6
      <4>2. call'[t].before \subseteq held'
        BY <1>1, <1>2, <2>6 DEF CallOf
      <4> QED
        BY <4>1, <4>2
    <3>2. call'[t].tmp = {k} /\ call'[t].loc = {l}
      BY <1>4, <2>6
    <3> QED
      BY <1>4, <2>6, <2>7, <3>1, <3>2 DEF CallOf, InOpen, Making, Made
  <2>10. OpeningTypeOK'
    <3>1. disk' \in Nat /\ made' \in Nat /\ disk' <= made'
      BY <2>1, <2>2
    <3> QED
      BY <1>1, <1>2, <2>5, <3>1 DEF OpeningTypeOK
  <2> QED
    BY <2>8, <2>9, <2>10 DEF OInv
<1> QED
  BY <1>5, <1>6

\* unlink.
LEMMA NewUnlinkInv ==
    ASSUME OInv, NEW t \in Opener, NewUnlink(t)
    PROVE  OInv'
<1>1. call[t].pc = "unlink" /\ disk' = 0 /\ made' = made /\ Finish(t)
  BY DEF NewUnlink
<1>2. Listed(t) = {}
  BY <1>1 DEF Listed
<1>3. disk' \in Nat /\ disk' <= made'
  BY <1>1 DEF OInv, OpeningTypeOK
<1> QED
  BY <1>1, <1>2, <1>3, GiveUpInv DEF NewUnlink

\* The temporary locator is registered.
LEMMA NewRegisterInv ==
    ASSUME OInv, NEW t \in Opener, NewRegister(t)
    PROVE  OInv'
<1>1. /\ call[t].pc = "registertmp"
      /\ disk' = disk /\ made' = made /\ inHdf5' = inHdf5 /\ built' = built /\ held' = held
  BY DEF NewRegister
<1>2. OpeningTypeOK /\ CallOf(t)
  BY DEF OInv
<1>3. PICK k \in OLoc, l \in OLoc : call[t].tmp = {k} /\ call[t].loc = {l} /\ l # k
  BY <1>1, <1>2 DEF CallOf, Made
<1>4. RegLocator(k, call[t].file) /\ Goto(t, "handle")
  BY <1>3 DEF NewRegister
<1>5. PICK f \in Nat : f = call[t].file /\ f \in inHdf5
  BY <1>1, <1>2, CallTyped DEF CallOf, Made
<1>6. "handle" \in {"idle"} \cup InOpen \cup Making \cup Made
  BY DEF Made
<1>7. /\ call' \in [Opener -> Calls]
      /\ call'[t].pc = "handle" /\ call'[t].loc = call[t].loc /\ call'[t].tmp = call[t].tmp
      /\ call'[t].found = call[t].found /\ call'[t].file = call[t].file
      /\ call'[t].before = call[t].before
      /\ \A u \in Opener : u # t => call'[u] = call[u]
  BY <1>2, <1>4, <1>6, GotoOk
<1>8. Own(t) = {k, l} /\ Own(t)' = {k, l} /\ Listed(t) = {} /\ Listed(t)' = {k} /\ Handled(t)' = {}
  BY <1>1, <1>3, <1>7 DEF Own, Listed, Handled
<1>9. /\ ListRight'
      /\ primaries' \in Seq(OLoc) /\ refers' \in [OLoc -> Nat]
      /\ tree' \in [OLoc -> OTree \cup {NoOTree}]
      /\ refers'[k] = f
      /\ \A m : m # k => refers'[m] = refers[m] /\ tree'[m] = tree[m]
  <2>1. k \in Own(t) /\ k \notin Listed(t) /\ Listed(t)' = Listed(t) \cup {k}
    BY <1>8
  <2>2. PICK b \in OTree \cup {NoOTree} : b = NoOTree
    OBVIOUS
  <2>3. /\ primaries' = <<k>> \o primaries /\ refers' = [refers EXCEPT ![k] = f]
        /\ tree' = [tree EXCEPT ![k] = b] /\ entry' = TRUE
    BY <1>4, <1>5, <2>2 DEF RegLocator
  <2>4. f \in inHdf5 /\ b \in built \cup {NoOTree}
    BY <1>5, <2>2
  <2>5. held' = held /\ inHdf5' = inHdf5 /\ built' = built
    BY <1>1
  <2>6. \A u \in Opener : u # t => call'[u] = call[u]
    BY <1>7
  <2> QED
    BY <2>1, <2>3, <2>4, <2>5, <2>6, ListGrown
<1>10. OpeningTypeOK'
  BY <1>1, <1>2, <1>4, <1>7, <1>9 DEF OpeningTypeOK, RegLocator
<1>11. OwnApart'
  <2>1. Own(t)' \cap held' = {}
    BY <1>1, <1>8 DEF OInv, OwnApart
  <2>2. \A u \in Opener : u # t /\ call[u].pc \in Made /\ call'[t].pc \in Made =>
           call'[t].file # call[u].file
    BY <1>1, <1>7 DEF OInv, OwnApart, Made
  <2> QED
    BY <1>1, <1>7, <1>8, <2>1, <2>2, ApartOk
<1>12. \A u \in Opener : u # t => CallOf(u)'
  <2>1. \A u \in Opener : u # t => \A m \in Own(u) : refers'[m] = refers[m] /\ tree'[m] = tree[m]
    BY <1>8, <1>9 DEF OInv, OwnApart
  <2>2. \A u \in Opener : u # t =>
          /\ call[u].pc \in Made => call[u].file \in inHdf5'
          /\ call[u].pc = "store" => call[u].found \in built' \cup {NoOTree}
    BY <1>1 DEF OInv, CallOf
  <2>3. made' \in Nat /\ made <= made'
    BY <1>1, <1>2 DEF OpeningTypeOK
  <2> QED
    BY <1>1, <1>7, <2>1, <2>2, <2>3, OthersOk
<1>13. CallOf(t)'
  BY <1>1, <1>2, <1>3, <1>5, <1>7, <1>8, <1>9 DEF CallOf, InOpen, Making, Made
<1> QED
  BY <1>9, <1>10, <1>11, <1>12, <1>13 DEF OInv

\* The Handle of the new object.
LEMMA NewTopHandleInv ==
    ASSUME OInv, NEW t \in Opener, NewTopHandle(t)
    PROVE  OInv'
<1>1. /\ call[t].pc = "handle"
      /\ disk' = disk /\ made' = made /\ inHdf5' = inHdf5 /\ entry' = entry /\ held' = held
      /\ primaries' = primaries /\ refers' = refers
      /\ Goto(t, "new")
  BY DEF NewTopHandle
<1>2. OpeningTypeOK /\ CallOf(t) /\ ListRight
  BY DEF OInv
<1>3. PICK k \in OLoc, l \in OLoc : call[t].tmp = {k} /\ call[t].loc = {l} /\ l # k
  BY <1>1, <1>2 DEF CallOf, Made
<1>4. PICK b \in NewTree : built' = built \cup {b} /\ tree' = [tree EXCEPT ![k] = b]
  BY <1>3 DEF NewTopHandle
<1>5. b \in OTree /\ b # NoOTree
  BY GivenTree
<1>6. "new" \in {"idle"} \cup InOpen \cup Making \cup Made
  BY DEF Made
<1>7. /\ call' \in [Opener -> Calls]
      /\ call'[t].pc = "new" /\ call'[t].loc = call[t].loc /\ call'[t].tmp = call[t].tmp
      /\ call'[t].found = call[t].found /\ call'[t].file = call[t].file
      /\ call'[t].before = call[t].before
      /\ \A u \in Opener : u # t => call'[u] = call[u]
  BY <1>1, <1>2, <1>6, GotoOk
<1>8. /\ Own(t) = {k, l} /\ Own(t)' = {k, l} /\ Listed(t) = {k} /\ Listed(t)' = {k}
      /\ Handled(t)' = {k}
  BY <1>1, <1>3, <1>7 DEF Own, Listed, Handled
<1>9. tree'[k] = b /\ (\A m : m # k => tree'[m] = tree[m]) /\ tree' \in [OLoc -> OTree \cup {NoOTree}]
  BY <1>2, <1>4, <1>5 DEF OpeningTypeOK
<1>10. k \notin held /\ l \notin held
  BY <1>8 DEF OInv, OwnApart
<1>11. ListRight'
  <2>1. \A u \in Opener : Listed(u)' = Listed(u)
    BY <1>7, <1>8 DEF Listed
  <2>2. \A m \in OLoc : m \in ToSet(primaries') <=> m \in held' \/ \E u \in Opener : m \in Listed(u)'
    BY <1>1, <1>2, <2>1 DEF ListRight
  <2>3. \A m \in ToSet(primaries') : refers'[m] \in inHdf5' /\ tree'[m] \in built' \cup {NoOTree}
    BY <1>1, <1>2, <1>4, <1>9 DEF ListRight
  <2>4. \A m \in held' : tree'[m] # NoOTree
    BY <1>1, <1>2, <1>9, <1>10 DEF ListRight
  <2> QED
    BY <1>1, <1>2, <2>2, <2>3, <2>4 DEF ListRight
<1>12. OwnApart'
  <2>1. Own(t)' \cap held' = {}
    BY <1>1, <1>8, <1>10
  <2>2. \A u \in Opener : u # t /\ call[u].pc \in Made /\ call'[t].pc \in Made =>
           call'[t].file # call[u].file
    BY <1>1, <1>7 DEF OInv, OwnApart, Made
  <2> QED
    BY <1>1, <1>7, <1>8, <2>1, <2>2, ApartOk
<1>13. \A u \in Opener : u # t => CallOf(u)'
  <2>1. \A u \in Opener : u # t => \A m \in Own(u) : refers'[m] = refers[m] /\ tree'[m] = tree[m]
    BY <1>1, <1>8, <1>9 DEF OInv, OwnApart
  <2>2. \A u \in Opener : u # t =>
          /\ call[u].pc \in Made => call[u].file \in inHdf5'
          /\ call[u].pc = "store" => call[u].found \in built' \cup {NoOTree}
    BY <1>1, <1>4 DEF OInv, CallOf
  <2>3. made' \in Nat /\ made <= made'
    BY <1>1, <1>2 DEF OpeningTypeOK
  <2> QED
    BY <1>1, <1>7, <2>1, <2>2, <2>3, OthersOk
<1>14. CallOf(t)'
  <2>1. \A m \in Handled(t)' : tree'[m] # NoOTree
    BY <1>5, <1>8, <1>9
  <2>2. refers[k] = call[t].file /\ call[t].file \in inHdf5
    BY <1>1, <1>2, <1>3, <1>8 DEF CallOf, Made
  <2>3. \A m \in call'[t].tmp \cap Listed(t)' : refers'[m] = call'[t].file
    BY <1>1, <1>3, <1>7, <1>8, <2>2
  <2> QED
    BY <1>1, <1>2, <1>3, <1>7, <2>1, <2>2, <2>3 DEF CallOf, InOpen, Making, Made
<1>15. OpeningTypeOK'
  BY <1>1, <1>2, <1>7, <1>9 DEF OpeningTypeOK
<1> QED
  BY <1>11, <1>12, <1>13, <1>14, <1>15 DEF OInv

\* dat1New: the locator is registered with the Handle of the temporary one, or
\* the object could not be made.
LEMMA NewObjectInv ==
    ASSUME OInv, NEW t \in Opener, NewObject(t)
    PROVE  OInv'
<1>1. /\ call[t].pc = "new"
      /\ disk' = disk /\ made' = made /\ inHdf5' = inHdf5 /\ entry' = entry /\ held' = held
      /\ built' = built
  BY DEF NewObject
<1>2. OpeningTypeOK /\ CallOf(t) /\ ListRight
  BY DEF OInv
<1>3. PICK k \in OLoc, l \in OLoc : call[t].tmp = {k} /\ call[t].loc = {l} /\ l # k
  BY <1>1, <1>2 DEF CallOf, Made
<1>4. Own(t) = {k, l} /\ Listed(t) = {k} /\ Handled(t) = {k}
  BY <1>1, <1>3 DEF Own, Listed, Handled
<1>5. k \in ToSet(primaries) /\ tree[k] # NoOTree /\ refers[k] = call[t].file
  BY <1>1, <1>2, <1>3, <1>4 DEF CallOf, ListRight, Made
<1>6. call[t].file \in inHdf5 /\ call[t].file \in Nat
  BY <1>1, <1>2, CallTyped DEF CallOf, Made
<1>7. "annul" \in {"idle"} \cup InOpen \cup Making \cup Made
  BY DEF Made
<1>8. made' \in Nat /\ made <= made'
  BY <1>1, <1>2 DEF OpeningTypeOK
<1>9. \A u \in Opener : u # t /\ call[u].pc \in Made => call[t].file # call[u].file
  BY <1>1 DEF OInv, OwnApart, Made
<1>10. CASE /\ primaries' = <<l>> \o primaries
            /\ refers' = [refers EXCEPT ![l] = call[t].file]
            /\ tree' = [tree EXCEPT ![l] = tree[k]]
            /\ Goto(t, "annul")
  <2>1. /\ call' \in [Opener -> Calls]
        /\ call'[t].pc = "annul" /\ call'[t].loc = call[t].loc /\ call'[t].tmp = call[t].tmp
        /\ call'[t].found = call[t].found /\ call'[t].file = call[t].file
        /\ call'[t].before = call[t].before
        /\ \A u \in Opener : u # t => call'[u] = call[u]
    BY <1>2, <1>7, <1>10, GotoOk
  <2>2. Own(t)' = {k, l} /\ Listed(t)' = {k, l} /\ Handled(t)' = {k, l}
    BY <1>3, <2>1 DEF Own, Listed, Handled
  <2>3. PICK f \in Nat : f = call[t].file /\ f \in inHdf5
    BY <1>6
  <2>4. PICK b \in OTree \cup {NoOTree} : b = tree[k] /\ b \in built \cup {NoOTree}
    BY <1>2, <1>5 DEF OpeningTypeOK, ListRight
  <2>5. /\ ListRight'
        /\ primaries' \in Seq(OLoc) /\ refers' \in [OLoc -> Nat]
        /\ tree' \in [OLoc -> OTree \cup {NoOTree}]
        /\ refers'[l] = f /\ tree'[l] = b
        /\ \A m : m # l => refers'[m] = refers[m] /\ tree'[m] = tree[m]
    <3>1. l \in Own(t) /\ l \notin Listed(t) /\ Listed(t)' = Listed(t) \cup {l}
      BY <1>3, <1>4, <2>2
    <3>2. /\ primaries' = <<l>> \o primaries /\ refers' = [refers EXCEPT ![l] = f]
          /\ tree' = [tree EXCEPT ![l] = b]
      BY <1>10, <2>3, <2>4
    <3>3. entry' = TRUE
      <4>1. primaries # <<>>
        BY <1>5 DEF ToSet
      <4> QED
        BY <1>1, <1>2, <4>1 DEF ListRight, OpeningTypeOK
    <3>4. held' = held /\ inHdf5' = inHdf5 /\ built' = built
      BY <1>1
    <3>5. f \in inHdf5 /\ b \in built \cup {NoOTree} /\ \A u \in Opener : u # t => call'[u] = call[u]
      BY <2>1, <2>3, <2>4
    <3> QED
      BY <3>1, <3>2, <3>3, <3>4, <3>5, ListGrown
  <2>6. OpeningTypeOK'
    BY <1>1, <1>2, <2>1, <2>5 DEF OpeningTypeOK
  <2>7. OwnApart'
    <3>1. Own(t)' \cap held' = {}
      BY <1>1, <1>4, <2>2 DEF OInv, OwnApart
    <3>2. Own(t)' \subseteq Own(t) \cup Unused /\ held' \subseteq held \cup Own(t)
      BY <1>1, <1>4, <2>2
    <3> QED
      BY <1>9, <2>1, <3>1, <3>2, ApartOk
  <2>8. \A u \in Opener : u # t => CallOf(u)'
    <3>1. \A u \in Opener : u # t => \A m \in Own(u) : refers'[m] = refers[m] /\ tree'[m] = tree[m]
      BY <1>4, <2>5 DEF OInv, OwnApart
    <3>2. \A u \in Opener : u # t =>
            /\ call[u].pc \in Made => call[u].file \in inHdf5'
            /\ call[u].pc = "store" => call[u].found \in built' \cup {NoOTree}
      BY <1>1 DEF OInv, CallOf
    <3> QED
      BY <1>1, <1>8, <2>1, <3>1, <3>2, OthersOk
  <2>9. CallOf(t)'
    <3>1. \A m \in Handled(t)' : tree'[m] # NoOTree
      BY <1>3, <1>5, <2>2, <2>4, <2>5
    <3>2. \A m \in call'[t].tmp \cap Listed(t)' : refers'[m] = call'[t].file
      BY <1>3, <1>5, <2>1, <2>5
    <3> QED
      BY <1>1, <1>2, <1>3, <1>6, <2>1, <3>1, <3>2 DEF CallOf, InOpen, Making, Made
  <2> QED
    BY <2>5, <2>6, <2>7, <2>8, <2>9 DEF OInv
<1>11. CASE /\ call' = [call EXCEPT ![t].pc = "annul", ![t].loc = {}]
            /\ primaries' = primaries /\ refers' = refers /\ tree' = tree
  <2>1. [call[t] EXCEPT !.pc = "annul", !.loc = {}] \in Calls
    BY <1>2, CallTyped DEF Calls, Made
  <2>2. PICK c \in Calls : c = [call[t] EXCEPT !.pc = "annul", !.loc = {}]
    BY <2>1
  <2>3. call' = [call EXCEPT ![t] = c]
    BY <1>2, <1>11, <2>2 DEF OpeningTypeOK
  <2>4. call' \in [Opener -> Calls] /\ call'[t] = c /\ \A u \in Opener : u # t => call'[u] = call[u]
    BY <1>2, <2>3, CallSet
  <2>5. /\ call'[t].pc = "annul" /\ call'[t].loc = {} /\ call'[t].tmp = call[t].tmp
        /\ call'[t].found = call[t].found /\ call'[t].file = call[t].file
        /\ call'[t].before = call[t].before
    BY <1>2, <2>2, <2>4, CallTyped DEF Calls
  <2>6. Own(t)' = {k} /\ Listed(t)' = {k} /\ Handled(t)' = {k}
    BY <1>3, <2>5 DEF Own, Listed, Handled
  <2>7. ListRight' /\ OwnApart' /\ \A u \in Opener : u # t => CallOf(u)'
    <3>1. Own(t)' \subseteq Own(t) \cup Unused /\ Own(t)' \cap held = {} /\ Listed(t)' = Listed(t)
      BY <1>4, <2>6 DEF OInv, OwnApart
    <3>2. inHdf5 \subseteq inHdf5'
      BY <1>1
    <3>3. \A u \in Opener : u # t /\ call[u].pc \in Made /\ call'[t].pc \in Made =>
             call'[t].file # call[u].file
      BY <1>9, <2>5
    <3> QED
      BY <1>1, <1>8, <1>11, <2>4, <3>1, <3>2, <3>3, StayOk
  <2>8. CallOf(t)'
    <3>1. \A m \in Handled(t)' : tree'[m] # NoOTree
      BY <1>5, <1>11, <2>6
    <3>2. \A m \in call'[t].tmp \cap Listed(t)' : refers'[m] = call'[t].file
      BY <1>3, <1>5, <1>11, <2>5
    <3> QED
      BY <1>1, <1>2, <1>3, <1>6, <2>5, <3>1, <3>2 DEF CallOf, InOpen, Making, Made
  <2>9. OpeningTypeOK'
    BY <1>1, <1>2, <1>11, <2>4 DEF OpeningTypeOK
  <2> QED
    BY <2>7, <2>8, <2>9 DEF OInv
<1> QED
  <2>1. \/ \E l1 \in call[t].loc, k1 \in call[t].tmp :
             /\ primaries' = <<l1>> \o primaries
             /\ refers' = [refers EXCEPT ![l1] = call[t].file]
             /\ tree' = [tree EXCEPT ![l1] = tree[k1]]
             /\ Goto(t, "annul")
        \/ /\ call' = [call EXCEPT ![t].pc = "annul", ![t].loc = {}]
           /\ primaries' = primaries /\ refers' = refers /\ tree' = tree
    BY DEF NewObject
  <2> QED
    BY <1>3, <1>10, <1>11, <2>1

\* hdsNew returns: its temporary locator is annulled.  If that closes the file,
\* it is the one that this call made, and no other call has a locator of it.
LEMMA NewReturnInv ==
    ASSUME OInv, NEW t \in Opener, NewReturn(t)
    PROVE  OInv'
<1>1. /\ call[t].pc = "annul" /\ Finish(t)
      /\ disk' = disk /\ made' = made /\ held' = held \cup call[t].loc
  BY DEF NewReturn
<1>2. OpeningTypeOK /\ CallOf(t) /\ ListRight
  BY DEF OInv
<1>3. PICK k \in OLoc : call[t].tmp = {k} /\ k \notin call[t].loc
  BY <1>1, <1>2 DEF CallOf, Made
<1>4. Dat1Annul(k)
  BY <1>3 DEF NewReturn
<1>5. Own(t) = call[t].loc \cup {k} /\ Listed(t) = Own(t) /\ Handled(t) = Own(t)
  BY <1>1, <1>3 DEF Own, Listed, Handled
<1>6. k \in ToSet(primaries) /\ refers[k] = call[t].file
  BY <1>1, <1>2, <1>3, <1>5 DEF CallOf, ListRight, Made
<1>7. call'[t] = Idling /\ (\A u \in Opener : u # t => call'[u] = call[u])
      /\ call' \in [Opener -> Calls]
  BY <1>1, <1>2, IdlingOk DEF Finish, OpeningTypeOK
<1>8. made' \in Nat /\ made <= made'
  BY <1>1, <1>2 DEF OpeningTypeOK
<1>9. CallOf(t)' /\ Own(t)' = {} /\ Listed(t)' = {}
  BY <1>7, <1>8, ReturnOk
<1>10. Own(t) \subseteq OLoc /\ Own(t) \cap held = {}
  BY <1>2, CallTyped DEF OInv, OwnApart
<1>11. \A u \in Opener : u # t => Own(u) \cap Own(t) = {} /\ Listed(u) \subseteq Own(u)
  BY <1>2, CallTyped DEF OInv, OwnApart
<1>12. /\ ListRight'
       /\ primaries' \in Seq(OLoc) /\ refers' \in [OLoc -> Nat] /\ entry' \in BOOLEAN
       /\ tree' \in [OLoc -> OTree \cup {NoOTree}]
       /\ ToSet(primaries') = ToSet(primaries) \ {k}
       /\ \A m : m # k => refers'[m] = refers[m] /\ tree'[m] = tree[m]
       /\ primaries' # <<>> => inHdf5' = inHdf5 /\ built' = built
       /\ inHdf5 \ {refers[k]} \subseteq inHdf5'
  <2>1. \A u \in Opener : u # t => Listed(u)' = Listed(u)
    BY <1>7 DEF Listed
  <2>2. ASSUME NEW m \in OLoc
        PROVE  m \in held' \/ (\E u \in Opener : m \in Listed(u)') <=>
                  m # k /\ (m \in held \/ \E u \in Opener : m \in Listed(u))
    BY <1>1, <1>3, <1>5, <1>9, <1>10, <1>11, <2>1
  <2>3. held' \subseteq OLoc
    BY <1>1, <1>2, CallTyped DEF OpeningTypeOK
  <2>4. ASSUME NEW m \in held' PROVE tree[m] # NoOTree
    BY <1>1, <1>2, <1>5, <2>4 DEF CallOf, ListRight
  <2> QED
    BY <1>4, <1>6, <2>2, <2>3, <2>4, ListShrunk
<1>13. OpeningTypeOK'
  BY <1>1, <1>2, <1>7, <1>12, CallTyped DEF OpeningTypeOK
<1>14. OwnApart'
  <2>1. call'[t].pc \notin Made
    BY <1>7, IdlingOk DEF Made
  <2>2. held' \subseteq held \cup Own(t)
    BY <1>1, <1>5
  <2> QED
    BY <1>7, <1>9, <2>1, <2>2, ApartOk
<1>15. \A u \in Opener : u # t => CallOf(u)'
  <2>1. \A u \in Opener : u # t => \A m \in Own(u) : refers'[m] = refers[m] /\ tree'[m] = tree[m]
    BY <1>5, <1>11, <1>12
  <2>2. ASSUME NEW u \in Opener, u # t
        PROVE  /\ call[u].pc \in Made => call[u].file \in inHdf5'
               /\ call[u].pc = "store" => call[u].found \in built' \cup {NoOTree}
    <3>1. CallOf(u)
      BY DEF OInv
    <3>2. ASSUME call[u].pc \in Made PROVE call[u].file \in inHdf5'
      <4>1. call[u].file # call[t].file
        BY <1>1, <2>2, <3>2 DEF OInv, OwnApart, Made
      <4> QED
        BY <1>6, <1>12, <3>1, <3>2, <4>1 DEF CallOf
    <3>3. ASSUME call[u].pc = "store" PROVE call[u].found \in built' \cup {NoOTree}
      <4>1. PICK l \in OLoc : call[u].loc = {l}
        BY <3>1, <3>3 DEF CallOf, InOpen
      <4>2. l \in Listed(u)
        BY <3>3, <4>1 DEF Listed
      <4>3. l \in ToSet(primaries) /\ l # k
        BY <1>2, <1>5, <1>11, <2>2, <4>2 DEF ListRight
      <4>4. primaries' # <<>>
        BY SMTT(40), <1>12, <4>3 DEF ToSet
      <4> QED
        BY <1>12, <3>1, <3>3, <4>4 DEF CallOf
    <3> QED
      BY <3>2, <3>3
  <2>3. held \subseteq held'
    BY <1>1
  <2> QED
    BY <1>7, <1>8, <2>1, <2>2, <2>3, OthersOk
<1> QED
  BY <1>9, <1>12, <1>13, <1>14, <1>15 DEF OInv

\* datAnnul.  By the rule for the program, the file is closed only when no
\* thread is opening or making it.
LEMMA OpeningAnnulInv ==
    ASSUME OInv, NEW t \in Opener, OpeningAnnul(t)
    PROVE  OInv'
<1>1. PICK l \in held :
        /\ primaries = <<l>> => \A u \in Opener : ~Busy(u)
        /\ Dat1Annul(l)
        /\ held' = held \ {l}
        /\ call' = [u \in Opener |-> [call[u] EXCEPT !.before = @ \ {l}]]
  BY DEF OpeningAnnul
<1>2. OpeningTypeOK /\ ListRight /\ disk' = disk /\ made' = made
  BY DEF OInv, OpeningAnnul
<1>3. l \in OLoc /\ l \in ToSet(primaries) /\ held \subseteq OLoc
  BY <1>2 DEF OpeningTypeOK, ListRight
<1>4. ASSUME NEW u \in Opener
      PROVE  /\ [call[u] EXCEPT !.before = @ \ {l}] \in Calls
             /\ call'[u].pc = call[u].pc /\ call'[u].loc = call[u].loc
             /\ call'[u].tmp = call[u].tmp /\ call'[u].found = call[u].found
             /\ call'[u].file = call[u].file /\ call'[u].before = call[u].before \ {l}
  <2>1. call'[u] = [call[u] EXCEPT !.before = call[u].before \ {l}]
    BY <1>1, <1>2, CallTyped DEF Calls
  <2> QED
    BY <1>2, <2>1, CallTyped DEF Calls
<1>5. call' \in [Opener -> Calls]
  BY <1>1, <1>4
<1>6. \A u \in Opener : Own(u)' = Own(u) /\ Listed(u)' = Listed(u) /\ Handled(u)' = Handled(u)
  BY <1>4 DEF Own, Listed, Handled
<1>7. \A u \in Opener : l \notin Own(u) /\ Listed(u) \subseteq Own(u) /\ Handled(u) \subseteq Own(u)
                        /\ Own(u) \subseteq OLoc
  BY <1>2, CallTyped DEF OInv, OwnApart, Handled
<1>8. /\ ListRight'
      /\ primaries' \in Seq(OLoc) /\ refers' \in [OLoc -> Nat] /\ entry' \in BOOLEAN
      /\ tree' \in [OLoc -> OTree \cup {NoOTree}]
      /\ ToSet(primaries') = ToSet(primaries) \ {l}
      /\ \A m : m # l => refers'[m] = refers[m] /\ tree'[m] = tree[m]
      /\ primaries' # <<>> => inHdf5' = inHdf5 /\ built' = built
  <2>1. ASSUME NEW m \in OLoc
        PROVE  m \in held' \/ (\E u \in Opener : m \in Listed(u)') <=>
                  m # l /\ (m \in held \/ \E u \in Opener : m \in Listed(u))
    BY <1>1, <1>6, <1>7
  <2>2. held' \subseteq OLoc /\ \A m \in held' : tree[m] # NoOTree
    BY <1>1, <1>2, <1>3 DEF ListRight
  <2> QED
    BY <1>1, <1>3, <2>1, <2>2, ListShrunk
<1>9. OpeningTypeOK'
  BY <1>1, <1>2, <1>5, <1>8 DEF OpeningTypeOK
<1>10. OwnApart'
  BY <1>1, <1>4, <1>6 DEF OInv, OwnApart
<1>11. ASSUME NEW u \in Opener PROVE CallOf(u)'
  <2>1. CallOf(u)
    BY DEF OInv
  <2>2. CASE call[u] = Idling
    <3>1. /\ call'[u].pc = "idle" /\ call'[u].loc = {} /\ call'[u].tmp = {}
          /\ call'[u].found = NoOTree /\ call'[u].file = 0 /\ call'[u].before = {}
      BY <1>4, <2>2, IdlingOk
    <3>2. call'[u] = Idling
      <4>1. call'[u] = [Idling EXCEPT !.before = Idling.before \ {l}]
        BY <1>1, <2>2
      <4> QED
        BY <4>1 DEF Idling
    <3>3. made' \in Nat
      BY <1>2 DEF OpeningTypeOK
    <3> QED
      BY <3>2, <3>3, ReturnOk
  <2>3. CASE call[u] # Idling
    <3>1. call[u].pc # "idle"
      BY <2>1, <2>3 DEF CallOf
    <3>2. primaries' # <<>>
      <4>1. SUFFICES ASSUME primaries' = <<>> PROVE FALSE
        OBVIOUS
      <4>2. ToSet(primaries) = {l}
        <5>1. ToSet(primaries') = {}
          BY <1>8, <4>1, ShortLists
        <5> QED
          BY <1>3, <1>8, <5>1
      <4>3. primaries = <<l>>
        BY <1>2, <4>2, ShortLists DEF OpeningTypeOK, ListRight
      <4> QED
        BY <1>1, <3>1, <4>3 DEF Busy
    <3>3. inHdf5' = inHdf5 /\ built' = built
      BY <1>8, <3>2
    <3>4. \A m \in Handled(u)' : tree'[m] # NoOTree
      BY <1>6, <1>7, <1>8, <2>1 DEF CallOf
    <3>5. call'[u].pc \in Made => \A k \in call'[u].tmp \cap Listed(u)' : refers'[k] = call'[u].file
      <4> SUFFICES ASSUME call[u].pc \in Made, NEW k \in call[u].tmp \cap Listed(u)
                   PROVE  refers'[k] = call[u].file
        BY <1>4, <1>6
      <4>1. k # l
        BY <1>7
      <4> QED
        BY <1>8, <2>1, <4>1 DEF CallOf
    <3>6. /\ call'[u].pc \in InOpen => call'[u].tmp = {} /\ \E k \in OLoc : call'[u].loc = {k}
          /\ call'[u].pc \in Making \cup Made =>
               \E k \in OLoc : /\ call'[u].tmp = {k}
                               /\ \/ call'[u].pc = "annul" /\ call'[u].loc = {}
                                  \/ \E m \in OLoc : m # k /\ call'[u].loc = {m}
      BY <1>4, <2>1 DEF CallOf
    <3>7. /\ call'[u].file <= made'
          /\ call'[u].pc \in Made => call'[u].file \in inHdf5'
          /\ call'[u].before \subseteq held'
          /\ call'[u].pc = "store" => /\ call'[u].before # {} => call'[u].found # NoOTree
                                      /\ call'[u].found \in built' \cup {NoOTree}
      BY <1>1, <1>2, <1>4, <2>1, <3>3 DEF CallOf
    <3>8. call'[u].pc # "idle"
      BY <1>4, <3>1
    <3> QED
      BY <3>4, <3>5, <3>6, <3>7, <3>8 DEF CallOf
  <2> QED
    BY <2>2, <2>3
<1> QED
  BY <1>8, <1>9, <1>10, <1>11 DEF OInv

-----------------------------------------------------------------------------
(* Opening: the theorems *)

\* Nothing is open at first.
LEMMA OpeningInit == OInit => OInv
<1> SUFFICES ASSUME OInit PROVE OInv
  OBVIOUS
<1>1. \A t \in Opener : call[t] = Idling
  BY DEF OInit
<1>2. OpeningTypeOK
  <2>1. call \in [Opener -> Calls]
    BY IdlingOk DEF OInit
  <2>2. disk = 0 /\ made = 0 /\ entry = FALSE /\ primaries = <<>> /\ held = {}
    BY DEF OInit
  <2>3. tree \in [OLoc -> OTree \cup {NoOTree}] /\ refers \in [OLoc -> Nat]
    BY DEF OInit
  <2>4. primaries \in Seq(OLoc) /\ held \in SUBSET OLoc
    BY <2>2
  <2>5. disk \in Nat /\ made \in Nat /\ disk <= made
    BY <2>2
  <2>6. entry \in BOOLEAN
    BY <2>2
  <2> QED
    BY <2>1, <2>3, <2>4, <2>5, <2>6 DEF OpeningTypeOK
<1>3. \A t \in Opener : Own(t) = {} /\ Listed(t) = {} /\ Handled(t) = {}
  BY <1>1, IdlingOk DEF Own, Listed, Handled
<1>4. \A t \in Opener : CallOf(t)
  BY <1>1, <1>3, IdlingOk DEF OInit, CallOf, InOpen, Making, Made
<1>5. OwnApart
  BY <1>1, <1>3, IdlingOk DEF OwnApart, Made
<1>6. ListRight
  <2>1. primaries = <<>> /\ held = {} /\ ToSet(primaries) = {} /\ IsInjective(primaries)
    BY DEF OInit, ToSet, IsInjective
  <2> QED
    BY <1>3, <2>1 DEF ListRight
<1> QED
  BY <1>2, <1>4, <1>5, <1>6 DEF OInv

\* Every step keeps the invariant.
LEMMA OpeningNext == OInv /\ [ONext]_ovars => OInv'
<1> SUFFICES ASSUME OInv, [ONext]_ovars PROVE OInv'
  OBVIOUS
<1>1. CASE UNCHANGED ovars
  <2>1. /\ disk' = disk /\ made' = made /\ inHdf5' = inHdf5 /\ entry' = entry
        /\ primaries' = primaries /\ tree' = tree /\ refers' = refers /\ built' = built
        /\ held' = held /\ call' = call
    BY <1>1 DEF ovars
  <2> QED
    BY <2>1 DEF OInv, OpeningTypeOK, CallOf, OwnApart, ListRight, Own, Listed, Handled
<1>2. CASE ONext
  BY <1>2, OpenBeginInv, OpenFileInv, OpenRegisterInv, OpenFindInv, OpenStoreInv, NewBeginInv,
     NewCreateInv, NewUnlinkInv, NewRegisterInv, NewTopHandleInv, NewObjectInv, NewReturnInv,
     OpeningAnnulInv DEF ONext
<1> QED
  BY <1>1, <1>2

\* A locator that hdsOpen or hdsNew has returned is registered, for a file that
\* HDF5 has open, and its Handle exists, for any number of threads that open,
\* make and annul at once (hdsOpen, hdsNew, hds1FindHandle, dat1Annul).
THEOREM LocatorsUsable == OSpec => []HeldUsable
<1>1. OInv => HeldUsable
  <2> SUFFICES ASSUME OInv PROVE HeldUsable
    OBVIOUS
  <2>1. OpeningTypeOK /\ ListRight
    BY DEF OInv
  <2>2. \A l \in held : l \in OLoc /\ l \in ToSet(primaries)
    BY <2>1 DEF OpeningTypeOK, ListRight
  <2> QED
    BY <2>1, <2>2 DEF ListRight, HeldUsable
<1> QED
  BY <1>1, OpeningInit, OpeningNext, PTL DEF OSpec

\* hdsOpen shares the tree of the file if the program had a locator of it all
\* through the call, whatever other threads do between its steps (hdsOpen,
\* hds1FindHandle).
THEOREM ReopeningShares == OSpec => ReopenedShares
<1> DEFINE Shares == \A t \in Opener : OpenStore(t) /\ call[t].before # {} =>
                        \A l \in call[t].loc : tree'[l] \in Reached
<1>1. ASSUME OInv, [ONext]_ovars PROVE [Shares]_ovars
  <2> SUFFICES ASSUME NEW t \in Opener, OpenStore(t), call[t].before # {}, NEW l \in call[t].loc
               PROVE  tree'[l] \in Reached
    OBVIOUS
  <2>1. CallOf(t) /\ OpeningTypeOK /\ call[t].pc = "store"
    BY <1>1 DEF OInv, OpenStore
  <2>2. call[t].loc = {l} /\ l \in OLoc /\ call[t].found # NoOTree
    BY <2>1 DEF CallOf, InOpen
  <2>3. tree' = [tree EXCEPT ![l] = call[t].found]
    BY <2>2 DEF OpenStore
  <2>4. tree'[l] = call[t].found
    BY <2>1, <2>2, <2>3 DEF OpeningTypeOK
  <2> QED
    BY <2>4 DEF Reached
<1> QED
  BY <1>1, OpeningInit, OpeningNext, PTL DEF OSpec, ReopenedShares

-----------------------------------------------------------------------------
(* Names: texts *)

\* What texts are made of: what is in subscripts, in names, and the rest.
SubChar == {"(", ")", ",", ":"} \cup {Numeral[n] : n \in DOMAIN Numeral}
NameSet == DOMAIN Components \cup {TopText}
NameChar == UNION {ToSet(name) : name \in NameSet}
FileChar == {".", "sdf", "/", "v"} \cup UNION {ToSet(t) : t \in FileText}
Char1 == SubChar \cup NameChar \cup FileChar \cup {"/", ".", "'", CellMark, "<<ERROR>>"}
Text == Seq(Char1)

\* No name has a mark, and no subscript a "/" or ".".
LEMMA NamesOk ==
    /\ SubChar \subseteq Char1 /\ NameChar \subseteq Char1
    /\ \A c \in SubChar : c # "/" /\ c # "." /\ c # CellMark
    /\ \A c \in NameChar : c # "/" /\ c # "." /\ c # CellMark /\ c # "("
    /\ \A name \in NameSet : name \in Seq(NameChar) /\ name # <<>>
<1>1. ASSUME NEW name \in NameSet
      PROVE  name \in Seq(NameChar) /\ name # <<>> /\ ToSet(name) \cap Marks = {}
  <2>1. name \in Seq(STRING) /\ name # <<>> /\ ToSet(name) \cap Marks = {}
    BY NamesAssumption DEF NameSet
  <2>2. ToSet(name) \subseteq NameChar
    BY DEF NameChar
  <2>3. \A i \in 1..Len(name) : name[i] \in NameChar
    BY <2>1, <2>2 DEF ToSet
  <2>4. name \in Seq(NameChar)
    BY <2>1, <2>3
  <2> QED
    BY <2>1, <2>4
<1>2. ASSUME NEW c \in NameChar PROVE c \notin Marks
  BY <1>1 DEF NameChar
<1>3. ASSUME NEW c \in SubChar PROVE c # "/" /\ c # "." /\ c # CellMark
  <2>1. \A n \in DOMAIN Numeral : Numeral[n] \notin Marks
    BY NamesAssumption
  <2> QED
    BY <2>1 DEF SubChar, Marks, CellMark
<1> QED
  BY <1>1, <1>2, <1>3 DEF Char1, Marks

\* The text t has the character "/" nowhere.
Unslashed(t) == \A i \in 1..Len(t) : t[i] # "/"

\* Subscripts, and cells as HDF5 calls them.
Bounds == Seq((DOMAIN Numeral) \X (DOMAIN Numeral)) \ {<<>>}
Coordinates == Seq(DOMAIN Numeral) \ {<<>>}
Pairs(c) == [i \in DOMAIN c |-> <<c[i], c[i]>>]

\* A cell is a slice of one element.
LEMMA PairsOk == ASSUME NEW c \in Coordinates PROVE Pairs(c) \in Bounds
<1>1. c \in Seq(DOMAIN Numeral) /\ c # <<>>
  BY DEF Coordinates
<1>2. Pairs(c) \in [1..Len(c) -> (DOMAIN Numeral) \X (DOMAIN Numeral)]
  BY <1>1 DEF Pairs
<1>3. Pairs(c) \in Seq((DOMAIN Numeral) \X (DOMAIN Numeral)) /\ Len(Pairs(c)) = Len(c)
  BY <1>1, <1>2
<1> QED
  BY <1>1, <1>3 DEF Bounds

\* A subscript is text that begins with a bracket.
LEMMA EncodeOk ==
    ASSUME NEW b \in Bounds
    PROVE  /\ EncodeSubscript(b) \in Seq(SubChar)
           /\ Len(EncodeSubscript(b)) >= 2 /\ EncodeSubscript(b)[1] = "("
<1> DEFINE iscell == \A i \in DOMAIN b : b[i][1] = b[i][2]
           axis(i) == (IF i = 1 THEN <<>> ELSE <<",">>) \o <<Numeral[b[i][1]]>>
                      \o (IF iscell THEN <<>> ELSE <<":", Numeral[b[i][2]]>>)
           all == [i \in DOMAIN b |-> axis(i)]
           f == FlattenSeq(all)
<1>1. b \in Seq((DOMAIN Numeral) \X (DOMAIN Numeral))
  BY DEF Bounds
<1>2. ASSUME NEW i \in DOMAIN b PROVE axis(i) \in Seq(SubChar)
  <2>1. b[i][1] \in DOMAIN Numeral /\ b[i][2] \in DOMAIN Numeral
    BY <1>1
  <2> DEFINE lo == Numeral[b[i][1]]
             up == Numeral[b[i][2]]
  <2>2. lo \in SubChar /\ up \in SubChar /\ "," \in SubChar /\ ":" \in SubChar
    BY <2>1 DEF SubChar
  <2> HIDE DEF iscell
  <2> DEFINE x == IF i = 1 THEN <<>> ELSE <<",">>
             z == IF iscell THEN <<>> ELSE <<":", up>>
  <2>3. <<lo>> \in Seq(SubChar) /\ x \in Seq(SubChar) /\ z \in Seq(SubChar)
    <3> HIDE DEF lo, up
    <3>1. <<lo>> \in Seq(SubChar) /\ <<>> \in Seq(SubChar) /\ <<",">> \in Seq(SubChar)
      BY <2>2, OneOrTwo
    <3>2. <<":", up>> \in Seq(SubChar)
      BY <2>2, OneOrTwo
    <3>3. x \in {<<>>, <<",">>} /\ z \in {<<>>, <<":", up>>}
      OBVIOUS
    <3> HIDE DEF x, z
    <3> QED
      BY <3>1, <3>2, <3>3
  <2> HIDE DEF x, z, lo, up
  <2>4. x \o <<lo>> \o z \in Seq(SubChar)
    BY <2>3
  <2> QED
    BY <2>4 DEF x, z, lo, up
<1> HIDE DEF axis
<1>3. all \in Seq(Seq(SubChar))
  <2>1. all \in [1..Len(b) -> Seq(SubChar)]
    BY <1>1, <1>2
  <2> QED
    BY <1>1, <2>1
<1>4. f \in Seq(SubChar)
  <2>1. <<>> \in Seq(SubChar)
    OBVIOUS
  <2> QED
    BY <1>3, <2>1, FlatAppend
<1>5. EncodeSubscript(b) = <<"(">> \o f \o <<")">>
  BY DEF EncodeSubscript, axis
<1>6. "(" \in SubChar /\ ")" \in SubChar
  BY DEF SubChar
<1> HIDE DEF f
<1> QED
  BY <1>4, <1>5, <1>6

-----------------------------------------------------------------------------
(* Names: dat1FixNameCell *)

\* Three elements in a row.
InRow(s, i, a, b, c) == SubSeq(s, i, i + 2) = <<a, b, c>>

\* Three elements in a row are those three.
LEMMA ThreeInRow ==
    ASSUME NEW S, NEW s \in Seq(S), NEW i \in 1..(Len(s) - 2), NEW a, NEW b, NEW c
    PROVE  InRow(s, i, a, b, c) <=> s[i] = a /\ s[i + 1] = b /\ s[i + 2] = c
<1> DEFINE w == SubSeq(s, i, i + 2)
<1>1. w \in Seq(S) /\ Len(w) = 3
  OBVIOUS
<1>2. w[1] = s[i] /\ w[2] = s[i + 1] /\ w[3] = s[i + 2]
  OBVIOUS
<1> HIDE DEF w
<1>3. w = <<w[1], w[2], w[3]>>
  BY <1>1
<1> QED
  BY <1>2, <1>3 DEF w, InRow

\* Where the name of a cell begins.
LEMMA RootsOk ==
    ASSUME NEW s \in Text
    PROVE  /\ CellRoots(s) \subseteq 1..(Len(s) - 2)
           /\ \A i \in 1..(Len(s) - 2) :
                 i \in CellRoots(s) <=> s[i] = "/" /\ s[i + 1] = CellMark /\ s[i + 2] = "("
<1>1. s \in Seq(Char1)
  BY DEF Text
<1>2. \A i \in 1..(Len(s) - 2) :
         InRow(s, i, "/", CellMark, "(") <=> s[i] = "/" /\ s[i + 1] = CellMark /\ s[i + 2] = "("
  BY <1>1, ThreeInRow
<1> QED
  BY <1>2 DEF CellRoots, InRow

\* No cell's name lies across the beginning of a link.
LEMMA RootsApart ==
    ASSUME NEW s \in Text, NEW t \in Text, t # <<>>, t[1] = "/"
    PROVE  \A i \in 1..(Len(s) + Len(t)) :
              i \in CellRoots(s \o t) <=> i \in CellRoots(s) \/ i - Len(s) \in CellRoots(t)
<1> DEFINE m == Len(s)
           n == Len(t)
           w == s \o t
<1>1. m \in Nat /\ n \in Nat \ {0} /\ w \in Text /\ Len(w) = m + n
  BY DEF Text
<1>2. (\A i \in 1..m : w[i] = s[i]) /\ (\A i \in 1..n : w[m + i] = t[i])
  BY DEF Text
<1>3. CellRoots(s) \subseteq 1..(m - 2) /\ CellRoots(t) \subseteq 1..(n - 2)
      /\ CellRoots(w) \subseteq 1..(m + n - 2)
  <2>1. CellRoots(w) \subseteq 1..(Len(w) - 2)
    <3> HIDE DEF w
    <3> QED
      BY <1>1, RootsOk
  <2>2. CellRoots(s) \subseteq 1..(m - 2) /\ CellRoots(t) \subseteq 1..(n - 2)
    BY RootsOk
  <2> HIDE DEF w, m, n
  <2> QED
    BY <1>1, <2>1, <2>2
<1>4. "/" # CellMark /\ "/" # "("
  BY DEF CellMark
<1>5. /\ \A i \in 1..(m - 2) : i \in CellRoots(s) <=> s[i] = "/" /\ s[i + 1] = CellMark /\ s[i + 2] = "("
      /\ \A i \in 1..(n - 2) : i \in CellRoots(t) <=> t[i] = "/" /\ t[i + 1] = CellMark /\ t[i + 2] = "("
      /\ \A i \in 1..(m + n - 2) : i \in CellRoots(w) <=> w[i] = "/" /\ w[i + 1] = CellMark /\ w[i + 2] = "("
  <2>1. \A i \in 1..(Len(w) - 2) : i \in CellRoots(w) <=> w[i] = "/" /\ w[i + 1] = CellMark /\ w[i + 2] = "("
    <3> HIDE DEF w
    <3> QED
      BY <1>1, RootsOk
  <2>2. /\ \A i \in 1..(m - 2) : i \in CellRoots(s) <=> s[i] = "/" /\ s[i + 1] = CellMark /\ s[i + 2] = "("
        /\ \A i \in 1..(n - 2) : i \in CellRoots(t) <=> t[i] = "/" /\ t[i + 1] = CellMark /\ t[i + 2] = "("
    BY RootsOk
  <2> HIDE DEF w, m, n
  <2> QED
    BY <1>1, <2>1, <2>2
<1>6. w[m + 1] = "/"
  BY <1>1, <1>2
<1> DEFINE slash == "/"
           bra == "("
<1> HIDE DEF w, m, n, slash, bra
<1>7. ASSUME NEW i \in 1..(m + n)
      PROVE  i \in CellRoots(w) <=> i \in CellRoots(s) \/ i - m \in CellRoots(t)
  <2>1. CASE i \in 1..(m - 2)
    <3>1. i \in 1..(m + n - 2) /\ i \in 1..m /\ i + 1 \in 1..m /\ i + 2 \in 1..m /\ i - m \notin 1..(n - 2)
      BY <1>1, <2>1
    <3>2. w[i] = s[i] /\ w[i + 1] = s[i + 1] /\ w[i + 2] = s[i + 2]
      BY <1>2, <3>1
    <3> QED
      BY <1>3, <1>5, <2>1, <3>1, <3>2
  <2>2. CASE i = m - 1
    <3>1. i \notin 1..(m - 2) /\ i - m \notin 1..(n - 2) /\ i + 2 = m + 1
      BY <1>1, <2>2
    <3>2. i \notin CellRoots(w)
      BY <1>3, <1>4, <1>5, <1>6, <3>1
    <3> QED
      BY <1>3, <3>1, <3>2
  <2>3. CASE i = m
    <3>1. i \notin 1..(m - 2) /\ i - m \notin 1..(n - 2) /\ i + 1 = m + 1
      BY <1>1, <2>3
    <3>2. i \notin CellRoots(w)
      BY <1>3, <1>4, <1>5, <1>6, <3>1
    <3> QED
      BY <1>3, <3>1, <3>2
  <2>4. CASE i \in (m + 1)..(m + n)
    <3> DEFINE j == i - m
    <3>1. i \notin 1..(m - 2) /\ j \in 1..n /\ i = m + j
      BY <1>1, <2>4
    <3>2. CASE j \in 1..(n - 2)
      <4>1. i \in 1..(m + n - 2) /\ j + 1 \in 1..n /\ j + 2 \in 1..n
            /\ i + 1 = m + (j + 1) /\ i + 2 = m + (j + 2)
        BY <1>1, <3>1, <3>2
      <4> HIDE DEF j
      <4>2. w[i] = t[j] /\ w[i + 1] = t[j + 1] /\ w[i + 2] = t[j + 2]
        BY <1>2, <3>1, <4>1
      <4>3. i \in CellRoots(w) <=> j \in CellRoots(t)
        BY <1>5, <3>2, <4>1, <4>2
      <4> QED
        BY <1>3, <3>1, <4>3 DEF j
    <3>3. CASE j \notin 1..(n - 2)
      <4>1. i \notin 1..(m + n - 2)
        BY <1>1, <3>1, <3>3
      <4> QED
        BY <1>3, <3>1, <3>3, <4>1
    <3> QED
      BY <3>2, <3>3
  <2> QED
    BY <1>1, <2>1, <2>2, <2>3, <2>4
<1> QED
  BY <1>7 DEF w, m, n

\* What FixNameCell makes of each character.
Mask(s) == [i \in DOMAIN s |-> IF {i, i - 1} \cap CellRoots(s) = {} THEN <<s[i]>> ELSE <<>>]

\* FixNameCell has a text for each character.
LEMMA MaskOk ==
    ASSUME NEW s \in Text
    PROVE  Mask(s) \in Seq(Text) /\ Len(Mask(s)) = Len(s)
<1>1. s \in Seq(Char1)
  BY DEF Text
<1>2. ASSUME NEW i \in 1..Len(s)
      PROVE  (IF {i, i - 1} \cap CellRoots(s) = {} THEN <<s[i]>> ELSE <<>>) \in Text
  <2>1. s[i] \in Char1
    BY <1>1
  <2>2. <<s[i]>> \in Text /\ <<>> \in Text
    BY <2>1, OneOrTwo DEF Text
  <2> QED
    BY <2>2
<1>3. Mask(s) \in [1..Len(s) -> Text]
  BY <1>1, <1>2 DEF Mask
<1> QED
  BY <1>1, <1>3

\* A link has no effect on what is made of the links before it.
LEMMA MaskApart ==
    ASSUME NEW s \in Text, NEW t \in Text, t # <<>>, t[1] = "/"
    PROVE  Mask(s \o t) = Mask(s) \o Mask(t)
<1> DEFINE m == Len(s)
           n == Len(t)
           w == s \o t
           both == Mask(s) \o Mask(t)
<1>1. m \in Nat /\ n \in Nat \ {0} /\ w \in Text /\ Len(w) = m + n
      /\ DOMAIN w = 1..(m + n) /\ DOMAIN s = 1..m /\ DOMAIN t = 1..n
  BY DEF Text
<1>2. (\A i \in 1..m : w[i] = s[i]) /\ (\A i \in 1..n : w[m + i] = t[i])
  BY DEF Text
<1>3. CellRoots(s) \subseteq 1..(m - 2) /\ CellRoots(t) \subseteq 1..(n - 2)
      /\ CellRoots(w) \subseteq 1..(m + n - 2)
  <2>1. CellRoots(w) \subseteq 1..(Len(w) - 2)
    <3> HIDE DEF w
    <3> QED
      BY <1>1, RootsOk
  <2>2. CellRoots(s) \subseteq 1..(m - 2) /\ CellRoots(t) \subseteq 1..(n - 2)
    BY RootsOk
  <2> HIDE DEF w, m, n
  <2> QED
    BY <1>1, <2>1, <2>2
<1>4. \A i \in 1..(m + n) : i \in CellRoots(w) <=> i \in CellRoots(s) \/ i - m \in CellRoots(t)
  BY RootsApart
<1>5. /\ both \in Seq(Text) /\ Len(both) = m + n
      /\ \A i \in 1..m : both[i] = Mask(s)[i]
      /\ \A i \in 1..n : both[m + i] = Mask(t)[i]
  <2> DEFINE x == Mask(s)
             y == Mask(t)
  <2>1. x \in Seq(Text) /\ y \in Seq(Text) /\ Len(x) = m /\ Len(y) = n
    BY MaskOk
  <2> HIDE DEF x, y, m, n
  <2>2. /\ x \o y \in Seq(Text) /\ Len(x \o y) = m + n
        /\ \A i \in 1..m : (x \o y)[i] = x[i]
        /\ \A i \in 1..n : (x \o y)[m + i] = y[i]
    BY <1>1, <2>1
  <2> QED
    BY <2>2 DEF x, y
<1> HIDE DEF both, w, m, n
<1>6. ASSUME NEW i \in 1..(m + n) PROVE Mask(w)[i] = both[i]
  <2>1. Mask(w)[i] = IF {i, i - 1} \cap CellRoots(w) = {} THEN <<w[i]>> ELSE <<>>
    BY <1>1 DEF Mask
  <2>2. CASE i \in 1..m
    <3>1. \A k \in {i, i - 1} : k \in 0..m /\ k - m \notin 1..(n - 2)
      BY <1>1, <2>2
    <3>2. \A k \in {i, i - 1} : k \in CellRoots(w) <=> k \in CellRoots(s)
      <4>1. \A k \in 0..m : k = 0 \/ k \in 1..(m + n)
        BY <1>1
      <4>2. 0 \notin 1..(m - 2) /\ 0 \notin 1..(m + n - 2)
        BY <1>1
      <4> QED
        BY <1>3, <1>4, <3>1, <4>1, <4>2
    <3>3. Mask(s)[i] = IF {i, i - 1} \cap CellRoots(s) = {} THEN <<s[i]>> ELSE <<>>
      BY <1>1, <2>2 DEF Mask
    <3>4. {i, i - 1} \cap CellRoots(w) = {} <=> {i, i - 1} \cap CellRoots(s) = {}
      BY <3>2
    <3> QED
      BY <1>2, <1>5, <2>1, <2>2, <3>3, <3>4
  <2>3. CASE i \notin 1..m
    <3> DEFINE j == i - m
    <3>1. j \in 1..n /\ i = m + j /\ j - 1 = (i - 1) - m
      BY <1>1, <2>3
    <3>2. (i \in CellRoots(w) <=> j \in CellRoots(t)) /\ (i - 1 \in CellRoots(w) <=> j - 1 \in CellRoots(t))
      <4>1. i \notin 1..(m - 2) /\ i - 1 \notin 1..(m - 2)
        BY <1>1, <3>1
      <4>2. i - 1 \in 1..(m + n) \/ (i - 1 \notin 1..(m + n - 2) /\ j - 1 \notin 1..(n - 2))
        BY <1>1, <3>1
      <4> HIDE DEF j
      <4>3. i \in CellRoots(w) <=> j \in CellRoots(t)
        BY <1>3, <1>4, <4>1 DEF j
      <4>4. CASE i - 1 \in 1..(m + n)
        <5>1. i - 1 \in CellRoots(w) <=> (i - 1) - m \in CellRoots(t)
          BY <1>3, <1>4, <4>1, <4>4
        <5> QED
          BY <3>1, <4>3, <5>1
      <4>5. CASE i - 1 \notin 1..(m + n - 2) /\ j - 1 \notin 1..(n - 2)
        BY <1>3, <4>3, <4>5
      <4> QED
        BY <4>2, <4>4, <4>5
    <3> HIDE DEF j
    <3>3. Mask(t)[j] = IF {j, j - 1} \cap CellRoots(t) = {} THEN <<t[j]>> ELSE <<>>
      BY <1>1, <3>1 DEF Mask
    <3>4. {i, i - 1} \cap CellRoots(w) = {} <=> {j, j - 1} \cap CellRoots(t) = {}
      BY <3>2
    <3>5. w[i] = t[j] /\ both[i] = Mask(t)[j]
      BY <1>2, <1>5, <3>1
    <3> QED
      BY <2>1, <3>3, <3>4, <3>5
  <2> QED
    BY <2>2, <2>3
<1>7. Mask(w) \in Seq(Text) /\ Len(Mask(w)) = m + n
  BY <1>1, MaskOk
<1>8. Mask(w) = both
  <2> DEFINE x == Mask(w)
  <2>1. x \in Seq(Text) /\ Len(x) = m + n /\ \A i \in 1..(m + n) : x[i] = both[i]
    BY <1>6, <1>7
  <2> HIDE DEF x
  <2>2. x = both
    BY <1>5, <2>1
  <2> QED
    BY <2>2 DEF x
<1> QED
  BY <1>8 DEF w, both

\* FixNameCell works on each link by itself.
LEMMA FixApart ==
    ASSUME NEW s \in Text, NEW t \in Text, t # <<>>, t[1] = "/"
    PROVE  /\ FixNameCell(s) \in Text
           /\ FixNameCell(s \o t) = FixNameCell(s) \o FixNameCell(t)
<1>1. FixNameCell(s) = FlattenSeq(Mask(s)) /\ FixNameCell(t) = FlattenSeq(Mask(t))
      /\ FixNameCell(s \o t) = FlattenSeq(Mask(s \o t))
  BY DEF FixNameCell, Mask
<1>2. Mask(s) \in Seq(Text) /\ Mask(t) \in Seq(Text)
  BY MaskOk
<1>3. FlattenSeq(Mask(s) \o Mask(t)) = FlattenSeq(Mask(s)) \o FlattenSeq(Mask(t))
  BY <1>2, FlatConcat DEF Text
<1>4. <<>> \in Text
  BY DEF Text
<1>5. FlattenSeq(Mask(s)) \in Text
  BY <1>2, <1>4, FlatAppend DEF Text
<1> QED
  BY <1>1, <1>3, <1>5, MaskApart

-----------------------------------------------------------------------------
(* Names: what is left of HDF5's links *)

\* A link is the name of an object or a cell.
CellLink == {Coords2CellName(c) : c \in Coordinates}
Link == NameSet \cup CellLink

\* One link, of an object with a name.
LEMMA NameShown ==
    ASSUME NEW name \in NameSet
    PROVE  /\ name \in Text /\ Len(name) >= 1 /\ Head(name) # CellMark
           /\ <<"/">> \o name \in Text
           /\ FixNameCell(<<"/">> \o name) = <<"/">> \o name
<1>1. name \in Seq(NameChar) /\ name # <<>>
  BY NamesOk
<1>2. name \in Text
  BY <1>1, NamesOk DEF Text
<1>3. "/" \in Char1
  BY DEF Char1
<1> DEFINE slash == "/"
           t == <<slash>> \o name
           n == Len(name)
<1>4. n \in Nat /\ n >= 1 /\ \A i \in 1..n : name[i] \in NameChar /\ name[i] # slash /\ name[i] # CellMark
  BY <1>1, NamesOk
<1> HIDE DEF slash
<1>5. /\ t \in Text /\ Len(t) = n + 1 /\ t[1] = slash
      /\ \A i \in 2..(n + 1) : t[i] = name[i - 1]
  BY <1>2, <1>3 DEF Text, slash
<1> HIDE DEF t, n
<1>6. CellRoots(t) = {}
  <2> SUFFICES ASSUME NEW i \in CellRoots(t) PROVE FALSE
    OBVIOUS
  <2>1. i \in 1..(Len(t) - 2) /\ t[i] = slash /\ t[i + 1] = CellMark
    BY <1>5, RootsOk DEF slash
  <2>2. i + 1 \in 2..(n + 1) /\ (i + 1) - 1 \in 1..n
    BY <1>4, <1>5, <2>1
  <2> QED
    BY <1>4, <1>5, <2>1, <2>2
<1>7. Mask(t) = [i \in 1..Len(t) |-> IF i <= 0 THEN <<>> ELSE <<t[i]>>]
  <2>1. DOMAIN t = 1..Len(t) /\ \A i \in 1..Len(t) : ~(i <= 0)
    BY <1>5 DEF Text
  <2> QED
    BY <1>6, <2>1 DEF Mask
<1>8. FlattenSeq(Mask(t)) = SubSeq(t, 0 + 1, Len(t))
  <2>1. 0 \in 0..Len(t) /\ t \in Seq(Char1)
    BY <1>4, <1>5 DEF Text
  <2> DEFINE m == Mask(t)
  <2>2. m = [i \in 1..Len(t) |-> IF i <= 0 THEN <<>> ELSE <<t[i]>>]
    BY <1>7
  <2> HIDE DEF m
  <2>3. FlattenSeq(m) = SubSeq(t, 0 + 1, Len(t))
    BY <2>1, <2>2, FlatRest
  <2> QED
    BY <2>3 DEF m
<1>9. FixNameCell(t) = t
  <2>1. SubSeq(t, 0 + 1, Len(t)) = t
    BY <1>4, <1>5 DEF Text
  <2>2. FixNameCell(t) = FlattenSeq(Mask(t))
    BY DEF FixNameCell, Mask
  <2> QED
    BY <1>8, <2>1, <2>2
<1>10. Head(name) # CellMark /\ Len(name) >= 1
  BY <1>1, <1>4 DEF n
<1> QED
  BY <1>2, <1>5, <1>9, <1>10 DEF t, slash

\* One link, of a cell.
LEMMA CellShown ==
    ASSUME NEW c \in Coordinates
    PROVE  /\ Coords2CellName(c) \in Text /\ Coords2CellName(c) # <<>>
           /\ Head(Coords2CellName(c)) = CellMark
           /\ <<"/">> \o Coords2CellName(c) \in Text
           /\ FixNameCell(<<"/">> \o Coords2CellName(c)) = EncodeSubscript(Pairs(c))
<1> DEFINE slash == "/"
           e == EncodeSubscript(Pairs(c))
           l == <<CellMark>> \o e
           t == <<slash>> \o l
           n == Len(e)
<1>1. e \in Seq(SubChar) /\ n >= 2 /\ e[1] = "("
  BY PairsOk, EncodeOk
<1>2. Coords2CellName(c) = l
  BY DEF Coords2CellName, Pairs
<1> HIDE DEF e
<1>3. slash \in Char1 /\ CellMark \in Char1 /\ slash # CellMark
  BY DEF Char1, CellMark
<1>4. n \in Nat /\ e \in Text /\ \A i \in 1..n : e[i] \in SubChar /\ e[i] # slash
  BY <1>1, NamesOk DEF Text
<1> HIDE DEF slash
<1>5. l \in Text /\ l # <<>> /\ Head(l) = CellMark
  BY <1>3, <1>4 DEF Text
<1>6. /\ t \in Text /\ Len(t) = n + 2 /\ t[1] = slash /\ t[2] = CellMark
      /\ \A i \in 3..(n + 2) : t[i] = e[i - 2]
  BY <1>3, <1>4 DEF Text
<1>7. SubSeq(t, 2 + 1, Len(t)) = e
  <2>1. SubSeq(t, 3, Len(t)) \in Text /\ Len(SubSeq(t, 3, Len(t))) = n
    BY <1>1, <1>4, <1>6 DEF Text
  <2>2. \A i \in 1..n : SubSeq(t, 3, Len(t))[i] = t[i + 2] /\ t[i + 2] = e[i]
    BY <1>1, <1>4, <1>6 DEF Text
  <2> HIDE DEF t
  <2> DEFINE w == SubSeq(t, 3, Len(t))
  <2>3. w \in Seq(Char1) /\ e \in Seq(Char1) /\ Len(w) = Len(e) /\ \A i \in 1..Len(e) : w[i] = e[i]
    BY <1>4, <2>1, <2>2 DEF Text
  <2> HIDE DEF w
  <2>4. w = e
    BY <2>3
  <2> QED
    BY <2>4 DEF w
<1> HIDE DEF t, l, n
<1>8. ASSUME NEW i \in 1..Len(t) PROVE i \in CellRoots(t) <=> i = 1
  <2>1. CASE i = 1
    <3>1. 1 \in 1..(Len(t) - 2)
      BY <1>1, <1>4, <1>6
    <3>2. 1 + 1 = 2 /\ 1 + 2 = 3 /\ 3 \in 3..(n + 2) /\ 3 - 2 = 1
      BY <1>1, <1>4
    <3>3. t[1] = slash /\ t[1 + 1] = CellMark /\ t[1 + 2] = "("
      BY <1>1, <1>6, <3>2
    <3> QED
      BY <1>6, <2>1, <3>1, <3>3, RootsOk DEF slash
  <2>2. CASE i = 2
    <3>1. i \in CellRoots(t) => t[i] = slash
      BY <1>6, RootsOk DEF slash
    <3> QED
      BY <1>3, <1>6, <2>2, <3>1
  <2>3. CASE i # 1 /\ i # 2
    <3>1. i \in 3..(n + 2) /\ i - 2 \in 1..n
      BY <1>1, <1>4, <1>6, <2>3
    <3>2. t[i] = e[i - 2] /\ e[i - 2] # slash
      BY <1>4, <1>6, <3>1
    <3>3. i \in CellRoots(t) => t[i] = slash
      BY <1>6, RootsOk DEF slash
    <3> QED
      BY <2>3, <3>2, <3>3
  <2> QED
    BY <2>1, <2>2, <2>3
<1>9. Mask(t) = [i \in 1..Len(t) |-> IF i <= 2 THEN <<>> ELSE <<t[i]>>]
  <2>1. DOMAIN t = 1..Len(t) /\ Len(t) \in Nat
    BY <1>6 DEF Text
  <2>2. CellRoots(t) \subseteq 1..Len(t)
    <3>1. CellRoots(t) \subseteq 1..(Len(t) - 2)
      BY <1>6, RootsOk
    <3> QED
      BY <2>1, <3>1
  <2>3. ASSUME NEW i \in 1..Len(t) PROVE {i, i - 1} \cap CellRoots(t) = {} <=> ~(i <= 2)
    <3>1. i \in CellRoots(t) <=> i = 1
      BY <1>8
    <3>2. i - 1 \in CellRoots(t) <=> i = 2
      <4>1. CASE i = 1
        <5>1. i - 1 \notin 1..Len(t)
          BY <4>1
        <5> QED
          BY <2>2, <4>1, <5>1
      <4>2. CASE i # 1
        <5>1. i - 1 \in 1..Len(t) /\ (i - 1 = 1 <=> i = 2)
          BY <2>1, <4>2
        <5> QED
          BY <1>8, <5>1
      <4> QED
        BY <4>1, <4>2
    <3>3. i <= 2 <=> i = 1 \/ i = 2
      BY <2>1
    <3> QED
      BY <3>1, <3>2, <3>3
  <2> QED
    BY <2>1, <2>3 DEF Mask
<1>10. FlattenSeq(Mask(t)) = SubSeq(t, 2 + 1, Len(t))
  <2>1. 2 \in 0..Len(t) /\ t \in Seq(Char1)
    BY <1>4, <1>6 DEF Text
  <2> DEFINE m == Mask(t)
  <2>2. m = [i \in 1..Len(t) |-> IF i <= 2 THEN <<>> ELSE <<t[i]>>]
    BY <1>9
  <2> HIDE DEF m
  <2>3. FlattenSeq(m) = SubSeq(t, 2 + 1, Len(t))
    BY <2>1, <2>2, FlatRest
  <2> QED
    BY <2>3 DEF m
<1>11. FixNameCell(t) = e
  <2>1. FixNameCell(t) = FlattenSeq(Mask(t))
    BY DEF FixNameCell, Mask
  <2> QED
    BY <1>7, <1>10, <2>1
<1> QED
  BY <1>2, <1>5, <1>6, <1>11 DEF t, slash, e

\* HDF5's name of the object at the end of some links, and what HDS makes of it.
LinkText(links) == FlattenSeq([i \in DOMAIN links |-> <<"/">> \o links[i]])
Clean(links) == FixNameCell(LinkText(links))

\* What FixNameCell makes of one more link.
LEMMA CleanAppend ==
    ASSUME NEW links \in Seq(Link), NEW l \in Link
    PROVE  /\ LinkText(links) \in Text /\ Clean(links) \in Text
           /\ links = <<>> => Clean(links) = <<>>
           /\ Clean(Append(links, l)) = Clean(links) \o FixNameCell(<<"/">> \o l)
<1> DEFINE n == Len(links)
           more == Append(links, l)
           ss == [i \in DOMAIN links |-> <<"/">> \o links[i]]
           tt == [i \in DOMAIN more |-> <<"/">> \o more[i]]
<1>1. \A x \in Link : x \in Text /\ <<"/">> \o x \in Text
  BY NameShown, CellShown DEF Link, CellLink
<1>2. ss \in Seq(Text) /\ Len(ss) = n
  <2>1. DOMAIN links = 1..n /\ n \in Nat /\ \A i \in 1..n : links[i] \in Link
    OBVIOUS
  <2>2. \A i \in 1..n : <<"/">> \o links[i] \in Text
    BY <1>1, <2>1
  <2>3. ss \in [1..n -> Text]
    BY <2>1, <2>2
  <2> QED
    BY <2>1, <2>3
<1>3. tt = Append(ss, <<"/">> \o l)
  <2>1. n \in Nat /\ DOMAIN more = 1..(n + 1) /\ DOMAIN links = 1..n
        /\ (\A i \in 1..n : more[i] = links[i]) /\ more[n + 1] = l
    OBVIOUS
  <2> DEFINE last == <<"/">> \o l
             up == Append(ss, last)
  <2> HIDE DEF more, n
  <2>2. (\A i \in 1..n : tt[i] = ss[i]) /\ tt[n + 1] = last
    <3>1. \A i \in 1..n : tt[i] = <<"/">> \o links[i] /\ ss[i] = <<"/">> \o links[i]
      BY <2>1
    <3>2. tt[n + 1] = last
      BY <2>1
    <3> HIDE DEF tt, ss
    <3> QED
      BY <3>1, <3>2
  <2>3. DOMAIN tt = 1..(n + 1)
    BY <2>1
  <2>4. last \in Text
    BY <1>1
  <2> HIDE DEF ss, last
  <2>5. up \in Seq(Text) /\ Len(up) = n + 1 /\ (\A i \in 1..n : up[i] = ss[i]) /\ up[n + 1] = last
    BY <1>2, <2>1, <2>4
  <2> HIDE DEF tt, up
  <2>6. \A i \in 1..(n + 1) : i = n + 1 \/ i \in 1..n
    BY <2>1
  <2>7. ASSUME NEW i \in 1..(n + 1) PROVE tt[i] = up[i] /\ up[i] \in Text
    <3>1. up[i] \in Text
      BY <2>1, <2>5
    <3>2. CASE i = n + 1
      BY <2>2, <2>5, <3>1, <3>2
    <3>3. CASE i \in 1..n
      BY <2>2, <2>5, <3>1, <3>3
    <3> QED
      BY <2>6, <3>2, <3>3
  <2>8. tt \in [1..(n + 1) -> Text]
    <3>1. \A i \in 1..(n + 1) : tt[i] \in Text
      BY <2>7
    <3> QED
      BY <2>3, <3>1 DEF tt
  <2> QED
    BY <2>1, <2>5, <2>7, <2>8 DEF up, last
<1>4. <<"/">> \o l \in Text
  BY <1>1
<1>5. /\ LinkText(links) = FlattenSeq(ss)
      /\ LinkText(more) = FlattenSeq(tt)
  BY DEF LinkText
<1>6. /\ FlattenSeq(ss) \in Text
      /\ FlattenSeq(Append(ss, <<"/">> \o l)) = FlattenSeq(ss) \o (<<"/">> \o l)
      /\ ss = <<>> => FlattenSeq(ss) = <<>>
  <2> DEFINE t == <<"/">> \o l
  <2> HIDE DEF t, ss
  <2>1. t \in Text
    BY <1>4 DEF t
  <2>2. /\ FlattenSeq(ss) \in Text /\ FlattenSeq(Append(ss, t)) = FlattenSeq(ss) \o t
        /\ ss = <<>> => FlattenSeq(ss) = <<>>
    BY <1>2, <2>1, FlatAppend DEF Text
  <2> QED
    BY <2>2 DEF t
<1>7. (<<"/">> \o l)[1] = "/" /\ <<"/">> \o l # <<>>
  BY <1>1 DEF Text
<1>8. ASSUME links = <<>> PROVE Clean(links) = <<>>
  <2>1. ss = <<>>
    BY <1>8
  <2>2. LinkText(links) = <<>>
    BY <1>5, <1>6, <2>1
  <2>3. FixNameCell(<<>>) = <<>>
    <3>1. Mask(<<>>) = <<>>
      BY DEF Mask
    <3>2. <<>> \in Seq(Text) /\ <<>> \in Text
      BY DEF Text
    <3>3. FixNameCell(<<>>) = FlattenSeq(Mask(<<>>))
      BY DEF FixNameCell, Mask
    <3> QED
      BY <3>1, <3>2, <3>3, FlatAppend DEF Text
  <2> QED
    BY <2>2, <2>3 DEF Clean
<1>9. FixNameCell(FlattenSeq(ss)) \in Text
      /\ FixNameCell(FlattenSeq(ss) \o (<<"/">> \o l)) = FixNameCell(FlattenSeq(ss)) \o FixNameCell(<<"/">> \o l)
  <2> DEFINE x == FlattenSeq(ss)
             t == <<"/">> \o l
  <2>1. x \in Text /\ t \in Text /\ t # <<>> /\ t[1] = "/"
    BY <1>4, <1>6, <1>7
  <2> HIDE DEF x, t
  <2>2. FixNameCell(x) \in Text /\ FixNameCell(x \o t) = FixNameCell(x) \o FixNameCell(t)
    BY <2>1, FixApart
  <2> QED
    BY <2>2 DEF x, t
<1> HIDE DEF ss, tt
<1>10. Clean(more) = Clean(links) \o FixNameCell(<<"/">> \o l)
  BY <1>3, <1>5, <1>6, <1>9 DEF Clean
<1> QED
  BY <1>5, <1>6, <1>8, <1>9, <1>10 DEF Clean, more

-----------------------------------------------------------------------------
(* Names: the invariant *)

\* The kinds of object, the nodes of a path, file names, and locators.
Kind == {k \in [isstruct : BOOLEAN, dims : Seq(Nat \ {0})] :
            \A i \in DOMAIN k.dims : 1..k.dims[i] \subseteq DOMAIN Numeral}
Node == [name : NameSet, cell : Coordinates \cup {<<>>}, slice : Bounds \cup {<<>>}]
GoodFile == {f \in Seq(FileChar) : f # <<>> /\ f[1] # " " /\ f[Len(f)] # " "}
Place == [file : GoodFile, top : Kind, bounds : Bounds \cup {<<>>}, links : Seq(Link)]

\* The links that a node stands for, and those of each node on a path.
LinksAt(top, i, node) ==
    (IF i = 1 /\ top.isstruct THEN <<>> ELSE <<node.name>>)
    \o (IF node.cell = <<>> THEN <<>> ELSE <<Coords2CellName(node.cell)>>)
NodeLinks(top, path) == [i \in DOMAIN path |-> LinksAt(top, i, path[i])]
PathLinks(top, path) == FlattenSeq(NodeLinks(top, path))

\* What is known of the locator of the last node on a path.
Ends(p, front, node) ==
    /\ p.links = PathLinks(p.top, front) \o LinksAt(p.top, Len(front) + 1, node)
    /\ front = <<>> => node.name = TopText
    /\ front # <<>> => front[1].name = TopText /\ node.name \in DOMAIN Components
    /\ node.slice = p.bounds /\ (node.cell = <<>> \/ node.slice = <<>>)
    /\ \A i \in 1..Len(front) : front[i].slice = <<>>
    /\ \A i \in 2..Len(front) : front[i].name \in DOMAIN Components
    /\ ~p.top.isstruct => front = <<>> /\ node.cell = <<>>
    /\ p.bounds # <<>> => ~KindOf(p).isstruct

EndsPath(p, path) ==
    \E front \in Seq(Node), node \in Node : path = Append(front, node) /\ Ends(p, front, node)

\* The locator is that of the last node of the path, or of the root group above a
\* top-level primitive.
NamesInv ==
    /\ place \in Place
    /\ \/ hdspath = <<>> /\ ~place.top.isstruct /\ place.links = <<>>
       \/ EndsPath(place, hdspath)

\* All kinds are kinds.
LEMMA KindsOk ==
    /\ \A name \in DOMAIN Components : Components[name] \in Kind
    /\ TopKind \subseteq Kind /\ Scalar \in Kind
<1>1. \A k \in {Components[name] : name \in DOMAIN Components} \cup TopKind : k \in Kind
  BY NamesAssumption DEF Kind
<1>2. Scalar \in Kind
  <2>1. <<>> \in Seq(Nat \ {0}) /\ DOMAIN <<>> = {}
    OBVIOUS
  <2>2. Scalar.dims = <<>> /\ Scalar \in [isstruct : BOOLEAN, dims : Seq(Nat \ {0})]
    BY <2>1 DEF Scalar
  <2> QED
    BY <2>1, <2>2 DEF Kind
<1> QED
  BY <1>1, <1>2

\* A node stands for links.
LEMMA LinksAtOk ==
    ASSUME NEW top, NEW i, NEW node \in Node
    PROVE  LinksAt(top, i, node) \in Seq(Link)
<1> DEFINE a == IF i = 1 /\ top.isstruct THEN <<>> ELSE <<node.name>>
           b == IF node.cell = <<>> THEN <<>> ELSE <<Coords2CellName(node.cell)>>
<1>1. node.name \in Link /\ (node.cell # <<>> => Coords2CellName(node.cell) \in Link)
  BY DEF Node, Link, CellLink
<1>2. a \in Seq(Link)
  BY <1>1, OneOrTwo
<1>3. b \in Seq(Link)
  <2>1. CASE node.cell = <<>>
    BY <1>1, <2>1, OneOrTwo
  <2>2. CASE node.cell # <<>>
    BY <1>1, <2>2, OneOrTwo
  <2> QED
    BY <2>1, <2>2
<1> HIDE DEF a, b
<1>4. a \o b \in Seq(Link)
  BY <1>2, <1>3
<1> QED
  BY <1>4 DEF a, b, LinksAt

\* So does every node of a path.
LEMMA NodeLinksOk ==
    ASSUME NEW top, NEW path \in Seq(Node)
    PROVE  NodeLinks(top, path) \in Seq(Seq(Link)) /\ Len(NodeLinks(top, path)) = Len(path)
<1>1. \A i \in 1..Len(path) : LinksAt(top, i, path[i]) \in Seq(Link)
  BY LinksAtOk
<1>2. NodeLinks(top, path) \in [1..Len(path) -> Seq(Link)]
  BY <1>1 DEF NodeLinks
<1> QED
  BY <1>2

\* The links of a path with one more node.
LEMMA PathGrown ==
    ASSUME NEW top, NEW path \in Seq(Node), NEW node \in Node
    PROVE  /\ PathLinks(top, path) \in Seq(Link)
           /\ path = <<>> => PathLinks(top, path) = <<>>
           /\ PathLinks(top, Append(path, node)) = PathLinks(top, path) \o LinksAt(top, Len(path) + 1, node)
<1> DEFINE n == Len(path)
           more == Append(path, node)
           ss == NodeLinks(top, path)
           tt == NodeLinks(top, more)
           x == LinksAt(top, n + 1, node)
<1>1. n \in Nat /\ more \in Seq(Node) /\ Len(more) = n + 1
      /\ (\A i \in 1..n : more[i] = path[i]) /\ more[n + 1] = node
  OBVIOUS
<1>2. ss \in Seq(Seq(Link)) /\ Len(ss) = n /\ x \in Seq(Link)
  BY NodeLinksOk, LinksAtOk
<1>3. tt \in Seq(Seq(Link)) /\ Len(tt) = n + 1
  <2> HIDE DEF more
  <2> QED
    BY <1>1, NodeLinksOk
<1>4. (\A i \in 1..n : tt[i] = ss[i]) /\ tt[n + 1] = x
  <2>1. DOMAIN more = 1..(n + 1) /\ DOMAIN path = 1..n
    BY <1>1
  <2> HIDE DEF more, n
  <2>2. \A i \in 1..n : i \in 1..(n + 1) /\ tt[i] = LinksAt(top, i, path[i]) /\ ss[i] = LinksAt(top, i, path[i])
    BY <1>1, <2>1 DEF NodeLinks
  <2>3. n + 1 \in 1..(n + 1) /\ tt[n + 1] = x
    BY <1>1, <2>1 DEF NodeLinks
  <2> HIDE DEF tt, ss, x
  <2> QED
    BY <2>2, <2>3
<1> HIDE DEF tt, ss, x, more, n
<1>5. tt = Append(ss, x)
  BY <1>1, <1>2, <1>3, <1>4
<1>6. /\ FlattenSeq(ss) \in Seq(Link) /\ FlattenSeq(tt) = FlattenSeq(ss) \o x
      /\ ss = <<>> => FlattenSeq(ss) = <<>>
  BY <1>2, <1>5, FlatAppend
<1>7. path = <<>> => ss = <<>>
  BY <1>2 DEF n
<1> QED
  BY <1>6, <1>7 DEF PathLinks, ss, tt, x, more, n

\* Where the last node is, and what it is.
LEMMA KindAtEnd ==
    ASSUME NEW p \in Place, NEW front \in Seq(Node), NEW node \in Node, Ends(p, front, node)
    PROVE  /\ KindOf(p) = IF node.cell # <<>> THEN Scalar
                          ELSE IF front = <<>> THEN p.top ELSE Components[node.name]
           /\ KindOf(p) \in Kind
<1> DEFINE x == PathLinks(p.top, front)
<1>1. x \in Seq(Link) /\ (front = <<>> => x = <<>>)
  BY PathGrown
<1>2. p.links = x \o LinksAt(p.top, Len(front) + 1, node)
  BY DEF Ends
<1>3. p.top \in Kind /\ p.top.isstruct \in BOOLEAN /\ node.name \in NameSet /\ node.name \in Link
  BY DEF Place, Kind, Node, Link
<1>4. Len(front) + 1 = 1 <=> front = <<>>
  OBVIOUS
<1> HIDE DEF x
<1>5. CASE node.cell # <<>>
  <2> DEFINE l == Coords2CellName(node.cell)
             a == IF Len(front) + 1 = 1 /\ p.top.isstruct THEN <<>> ELSE <<node.name>>
  <2>1. node.cell \in Coordinates
    BY <1>5 DEF Node
  <2>2. Head(l) = CellMark /\ l \in Link
    BY <2>1, CellShown DEF Link, CellLink
  <2>3. p.top.isstruct
    BY <1>3, <1>5 DEF Ends
  <2>4. a \in Seq(Link) /\ p.links = x \o (a \o <<l>>)
    BY <1>2, <1>3, <1>5, OneOrTwo DEF LinksAt
  <2> HIDE DEF l, a
  <2>5. p.links # <<>> /\ Last(p.links) = l
    BY <1>1, <2>2, <2>4 DEF Last
  <2>6. KindOf(p) = Scalar
    BY <2>2, <2>3, <2>5 DEF KindOf
  <2> QED
    BY <1>5, <2>6, KindsOk
<1>6. CASE node.cell = <<>> /\ front = <<>>
  <2>1. CASE p.top.isstruct
    <3>1. LinksAt(p.top, Len(front) + 1, node) = <<>>
      BY <1>4, <1>6, <2>1 DEF LinksAt
    <3>2. p.links = <<>>
      BY <1>1, <1>2, <1>6, <3>1
    <3>3. KindOf(p) = p.top
      BY <2>1, <3>2 DEF KindOf
    <3> QED
      BY <1>3, <1>6, <3>3
  <2>2. CASE ~p.top.isstruct
    <3>1. node.name = TopText
      BY <1>6 DEF Ends
    <3>2. LinksAt(p.top, Len(front) + 1, node) = <<TopText>>
      BY <1>6, <2>2, <3>1 DEF LinksAt
    <3>3. p.links = <<TopText>> /\ p.links # <<>>
      <4>1. <<>> \o <<TopText>> = <<TopText>>
        OBVIOUS
      <4>2. p.links = <<>> \o <<TopText>>
        BY <1>1, <1>2, <1>6, <3>2
      <4> QED
        BY <4>1, <4>2
    <3>4. KindOf(p) = p.top
      BY <2>2, <3>3 DEF KindOf
    <3> QED
      BY <1>3, <1>6, <3>4
  <2> QED
    BY <2>1, <2>2
<1>7. CASE node.cell = <<>> /\ front # <<>>
  <2>1. p.top.isstruct /\ node.name \in DOMAIN Components
    BY <1>3, <1>7 DEF Ends
  <2>2. LinksAt(p.top, Len(front) + 1, node) = <<node.name>>
    BY <1>4, <1>7 DEF LinksAt
  <2>3. p.links # <<>> /\ Last(p.links) = node.name
    <3> DEFINE l == node.name
    <3>1. p.links = x \o <<l>> /\ l \in Link
      BY <1>2, <1>3, <2>2
    <3> HIDE DEF l
    <3>2. p.links # <<>> /\ Last(p.links) = l
      BY <1>1, <3>1 DEF Last
    <3> QED
      BY <3>2 DEF l
  <2>4. Head(node.name) # CellMark
    BY <1>3, NameShown
  <2>5. KindOf(p) = Components[node.name]
    BY <2>1, <2>3, <2>4 DEF KindOf
  <2> QED
    BY <1>7, <2>1, <2>5, KindsOk
<1> QED
  BY <1>5, <1>6, <1>7

-----------------------------------------------------------------------------
(* Names: file names *)

\* A text that begins and ends with a character that is no blank.
Firm(t) == t # <<>> /\ t[1] # " " /\ t[Len(t)] # " "
Tidy(t) == t = <<>> \/ Firm(t)

\* A text without the blanks around it is firm or empty.
LEMMA StrippedOk ==
    ASSUME NEW S, NEW t \in Seq(S)
    PROVE  /\ Stripped(t) \in Seq(S)
           /\ Tidy(Stripped(t))
           /\ Firm(t) => Stripped(t) = t
<1> DEFINE n == Len(t)
           inked == {i \in DOMAIN t : t[i] # " "}
           lo == Min(inked)
           up == Max(inked)
           w == SubSeq(t, lo, up)
<1>1. n \in Nat /\ DOMAIN t = 1..n /\ \A i \in 1..n : t[i] \in S
  OBVIOUS
<1>2. Stripped(t) = IF inked = {} THEN <<>> ELSE w
  BY DEF Stripped
<1>3. inked \in SUBSET (1..n)
  BY <1>1
<1>4. \A i \in inked : t[i] # " "
  OBVIOUS
<1>5. \A i \in 1..n : t[i] # " " => i \in inked
  BY <1>1
<1>6. Firm(t) => n \in 1..n /\ 1 \in 1..n /\ 1 \in inked /\ n \in inked
  <2>1. Firm(t) => n \in 1..n /\ 1 \in 1..n
    <3>1. t # <<>> => n \in 1..n /\ 1 \in 1..n
      OBVIOUS
    <3> QED
      BY <3>1 DEF Firm
  <2> HIDE DEF inked
  <2> QED
    BY <1>5, <2>1 DEF Firm
<1> HIDE DEF n, inked
<1>7. CASE inked = {}
  <2>1. Stripped(t) = <<>> /\ ~Firm(t)
    BY <1>2, <1>6, <1>7
  <2> QED
    BY <2>1 DEF Tidy
<1>8. CASE inked # {}
  <2>1. lo \in inked /\ \A y \in inked : lo <= y
    BY <1>1, <1>3, <1>8, FirstPosition
  <2>2. up \in inked /\ \A y \in inked : up >= y
    BY <1>1, <1>3, <1>8, LastPosition
  <2> HIDE DEF lo, up
  <2>3. lo \in 1..n /\ up \in 1..n /\ lo <= up
    BY <1>3, <2>1, <2>2
  <2>4. w \in Seq(S) /\ Len(w) = up - lo + 1 /\ w[1] = t[lo] /\ w[up - lo + 1] = t[up]
    BY <1>1, <2>3 DEF n
  <2>5. w # <<>>
    BY <1>1, <2>3, <2>4
  <2> HIDE DEF w
  <2>6. Firm(w)
    <3>1. t[lo] # " " /\ t[up] # " "
      BY <1>4, <2>1, <2>2
    <3> QED
      BY <2>4, <2>5, <3>1 DEF Firm
  <2>7. ASSUME Firm(t) PROVE w = t
    <3>1. lo <= 1 /\ up >= n
      BY <1>6, <2>1, <2>2, <2>7
    <3>2. lo = 1 /\ up = n
      BY <1>1, <2>3, <3>1
    <3>3. SubSeq(t, 1, n) = t
      BY DEF n
    <3> QED
      BY <3>2, <3>3 DEF w
  <2> QED
    BY <1>2, <1>8, <2>4, <2>6, <2>7 DEF Tidy
<1> QED
  BY <1>7, <1>8

\* With or without .sdf.
LEMMA ExtendedOk ==
    ASSUME NEW t \in Seq(FileChar), Tidy(t)
    PROVE  t \o Flext \in Seq(FileChar) /\ Firm(t \o Flext)
<1> DEFINE dot == "."
           sdf == "sdf"
           end == <<dot, sdf>>
           w == t \o end
<1>1. dot \in FileChar /\ sdf \in FileChar /\ dot # " " /\ sdf # " "
  BY DEF FileChar
<1>2. t \o Flext = w
  BY DEF Flext
<1> HIDE DEF dot, sdf
<1>0. end \in Seq(FileChar) /\ end[1] = dot /\ end[2] = sdf
  BY <1>1, OneOrTwo
<1>9. Len(end) = 2
  OBVIOUS
<1> HIDE DEF end
<1>3. w \in Seq(FileChar) /\ Len(w) = Len(t) + 2 /\ w[Len(w)] = sdf /\ w # <<>>
  <2>1. w \in Seq(FileChar) /\ Len(w) = Len(t) + Len(end)
        /\ \A i \in 1..Len(end) : w[Len(t) + i] = end[i]
    BY <1>0, JoinOk
  <2>2. Len(t) \in Nat
    OBVIOUS
  <2> HIDE DEF w
  <2> QED
    BY <1>0, <1>9, <2>1, <2>2
<1>4. t = <<>> => w[1] = dot
  <2>1. w = t \o end
    OBVIOUS
  <2>2. t = <<>> => t \o end = end
    BY <1>0
  <2> QED
    BY <1>0, <2>1, <2>2
<1>5. t # <<>> => w[1] = t[1]
  BY <1>0
<1> HIDE DEF w
<1>6. w[1] # " " /\ w[Len(w)] # " "
  BY <1>1, <1>3, <1>4, <1>5 DEF Firm, Tidy
<1> QED
  BY <1>2, <1>3, <1>6 DEF Firm

\* What dau1CheckFileName does not refuse begins and ends with no blank.
LEMMA FileOk ==
    ASSUME NEW t \in FileText, NEW shell \in BOOLEAN, CheckFileName(t, shell) # None
    PROVE  CheckFileName(t, shell) \in GoodFile
<1> DEFINE body == Stripped(t)
           full == IF LastSpot(body, ".") <= LastSpot(body, "/") THEN body \o Flext ELSE body
           each == [i \in DOMAIN full |-> IF full[i] = "$" THEN <<"/", "v">> ELSE <<full[i]>>]
           expanded == Stripped(FlattenSeq(each))
<1>1. t \in Seq(FileChar)
  <2>1. t \in Seq(STRING)
    BY NamesAssumption
  <2>2. \A i \in 1..Len(t) : t[i] \in FileChar
    BY <2>1 DEF FileChar, ToSet
  <2> QED
    BY <2>1, <2>2
<1>2. body \in Seq(FileChar) /\ Tidy(body)
  BY <1>1, StrippedOk
<1>3. full \in Seq(FileChar) /\ Tidy(full)
  <2> HIDE DEF body
  <2> QED
    BY <1>2, ExtendedOk DEF Tidy
<1>4. CheckFileName(t, shell) \in {None, full, Wordexp(full)}
  BY DEF CheckFileName
<1>5. Wordexp(full) \in {None, expanded}
  BY DEF Wordexp
<1> HIDE DEF body, full
<1>6. expanded \in Seq(FileChar) /\ Tidy(expanded)
  <2>1. "/" \in FileChar /\ "v" \in FileChar
    BY DEF FileChar
  <2>2. <<"/", "v">> \in Seq(FileChar) /\ <<>> \in Seq(FileChar)
    BY <2>1, OneOrTwo
  <2>3. \A i \in 1..Len(full) : <<full[i]>> \in Seq(FileChar)
    <3>1. \A i \in 1..Len(full) : full[i] \in FileChar
      BY <1>3
    <3> QED
      BY <3>1, OneOrTwo
  <2>4. each \in Seq(Seq(FileChar))
    <3>1. DOMAIN full = 1..Len(full) /\ Len(full) \in Nat
      BY <1>3
    <3>2. each \in [1..Len(full) -> Seq(FileChar)]
      BY <2>2, <2>3, <3>1
    <3> QED
      BY <3>1, <3>2
  <2> HIDE DEF each
  <2>5. FlattenSeq(each) \in Seq(FileChar)
    BY <2>2, <2>4, FlatAppend
  <2> QED
    BY <2>5, StrippedOk
<1> HIDE DEF expanded
<1>7. CheckFileName(t, shell) \in Seq(FileChar) /\ Firm(CheckFileName(t, shell))
  BY <1>3, <1>4, <1>5, <1>6 DEF None, Tidy
<1> QED
  BY <1>7 DEF Firm, GoodFile

-----------------------------------------------------------------------------
(* Names: the invariant is kept *)

\* The coordinates of a cell can be written.
LEMMA CoordsOk ==
    ASSUME NEW k \in Kind, k.dims # <<>>, NEW c \in Coords(k.dims)
    PROVE  c \in Coordinates /\ DOMAIN c = DOMAIN k.dims
<1> DEFINE d == k.dims
           n == Len(d)
           m == Max(ToSet(d))
<1>1. d \in Seq(Nat \ {0}) /\ \A i \in 1..n : d[i] \in Nat /\ 1..d[i] \subseteq DOMAIN Numeral
  BY DEF Kind
<1>2. n \in Nat /\ 1 \in 1..n /\ DOMAIN d = 1..n
  BY <1>1
<1>3. m \in Nat
  <2>1. {d[1]} \cup ToSet(d) = ToSet(d)
    BY <1>1, <1>2 DEF ToSet
  <2>2. d[1] \in Nat
    BY <1>1, <1>2
  <2>3. Max({d[1]} \cup ToSet(d)) \in Nat
    BY <1>1, <2>2, LargestDim
  <2> QED
    BY <2>1, <2>3
<1>4. c \in [1..n -> 1..m] /\ \A i \in 1..n : c[i] <= d[i]
  BY <1>2 DEF Coords
<1> HIDE DEF d, n, m
<1>5. \A i \in 1..n : c[i] \in DOMAIN Numeral
  <2>1. \A i \in 1..n : c[i] \in 1..d[i]
    BY <1>1, <1>3, <1>4
  <2> QED
    BY <1>1, <2>1
<1>6. c \in [1..n -> DOMAIN Numeral]
  BY <1>4, <1>5
<1>7. c \in Seq(DOMAIN Numeral) /\ Len(c) = n /\ c # <<>> /\ DOMAIN c = 1..n
  BY <1>2, <1>6
<1> QED
  BY <1>2, <1>7 DEF Coordinates, d

\* A locator on top of a file.
LEMMA TopOk ==
    ASSUME NEW p \in TopPlaces
    PROVE  p \in Place /\ EndsPath(p, <<OneNode(TopText)>>)
<1> DEFINE node == OneNode(TopText)
           front == <<>>
<1>1. PICK f \in {CheckFileName(t, s) : t \in FileText, s \in BOOLEAN} \ {None}, k \in TopKind :
         p = [file |-> f, top |-> k, bounds |-> <<>>, links |-> IF k.isstruct THEN <<>> ELSE <<TopText>>]
  BY DEF TopPlaces
<1>2. f \in GoodFile
  BY FileOk
<1>3. k \in Kind
  BY KindsOk
<1>4. TopText \in Link /\ TopText \in NameSet
  BY DEF Link, NameSet
<1> DEFINE links == IF k.isstruct THEN <<>> ELSE <<TopText>>
<1>5. links \in Seq(Link)
  BY <1>4, OneOrTwo
<1> HIDE DEF links
<1>6. p = [file |-> f, top |-> k, bounds |-> <<>>, links |-> links]
  BY <1>1 DEF links
<1>7. p \in Place
  BY <1>2, <1>3, <1>5, <1>6 DEF Place
<1>8. node \in Node /\ front \in Seq(Node) /\ <<node>> = Append(front, node)
  BY <1>4 DEF OneNode, Node
<1>9. Ends(p, front, node)
  <2>1. PathLinks(k, front) = <<>>
    BY DEF PathLinks, NodeLinks, FlattenSeq
  <2>2. LinksAt(k, 1, node) = links
    BY DEF LinksAt, OneNode, links
  <2>3. Len(front) = 0 /\ <<>> \o links = links
    BY <1>5
  <2>4. p.links = PathLinks(p.top, front) \o LinksAt(p.top, Len(front) + 1, node)
    <3>1. p.links = links /\ p.top = k /\ Len(front) + 1 = 1
      BY <1>6, <2>3
    <3> DEFINE x == PathLinks(k, front)
               y == LinksAt(k, 1, node)
    <3> HIDE DEF front, node
    <3>2. PathLinks(p.top, front) \o LinksAt(p.top, Len(front) + 1, node) = x \o y
      BY <3>1
    <3>3. x \o y = links
      <4>1. x = <<>> /\ y = links
        BY <2>1, <2>2
      <4> HIDE DEF x, y
      <4> QED
        BY <2>3, <4>1
    <3> QED
      BY <3>1, <3>2, <3>3
  <2>5. p.bounds = <<>> /\ node.name = TopText /\ node.slice = <<>> /\ node.cell = <<>>
    BY <1>6 DEF OneNode
  <2> QED
    BY <2>3, <2>4, <2>5 DEF Ends
<1> HIDE DEF front, node
<1>10. EndsPath(p, <<node>>)
  BY <1>8, <1>9 DEF EndsPath
<1> QED
  BY <1>7, <1>10 DEF node

\* datFind keeps the invariant.
LEMMA FindInv ==
    ASSUME NamesInv, NEW text \in Spelling, FindNamed(text)
    PROVE  NamesInv'
<1> DEFINE name == CheckName(text)
           new == OneNode(name)
<1>1. /\ hdspath # <<>> /\ KindOf(place) = Scalar /\ name \in DOMAIN Components
      /\ place' = [place EXCEPT !.links = Append(@, name)]
      /\ hdspath' = Append(hdspath, new)
  BY DEF FindNamed
<1>2. PICK front \in Seq(Node), node \in Node : hdspath = Append(front, node) /\ Ends(place, front, node)
  BY <1>1 DEF NamesInv, EndsPath
<1> HIDE DEF name
<1>3. place \in Place /\ hdspath \in Seq(Node) /\ Len(hdspath) = Len(front) + 1
  BY <1>2 DEF NamesInv
<1>4. name \in NameSet /\ name \in Link /\ new \in Node
  BY <1>1 DEF NameSet, Link, OneNode, Node
<1>5. place.bounds = <<>> /\ place.top.isstruct
  <2>1. Scalar.isstruct = TRUE
    BY DEF Scalar
  <2>2. place.bounds = <<>>
    BY <1>1, <1>2, <2>1 DEF Ends
  <2>3. place.top.isstruct
    <3> SUFFICES ASSUME ~place.top.isstruct PROVE FALSE
      OBVIOUS
    <3>1. front = <<>> /\ node.cell = <<>>
      BY <1>2 DEF Ends
    <3>2. KindOf(place) = place.top
      BY <1>2, <1>3, <3>1, KindAtEnd
    <3> QED
      BY <1>1, <2>1, <3>2
  <2> QED
    BY <2>2, <2>3
<1> DEFINE more == Append(place.links, name)
<1>6. place.links \in Seq(Link) /\ more \in Seq(Link)
  BY <1>3, <1>4 DEF Place
<1>7. place' \in Place /\ place'.links = more /\ place'.top = place.top /\ place'.bounds = place.bounds
  <2> HIDE DEF more
  <2> QED
    BY <1>1, <1>3, <1>6 DEF Place, more
<1>8. place.links = PathLinks(place.top, hdspath)
  BY <1>2, PathGrown DEF Ends
<1>9. LinksAt(place.top, Len(hdspath) + 1, new) = <<name>>
  <2>1. Len(hdspath) + 1 # 1
    BY <1>3
  <2> QED
    BY <2>1 DEF LinksAt, OneNode
<1>10. more = place.links \o <<name>>
  BY <1>4, <1>6
<1> HIDE DEF more
<1>11. Ends(place', hdspath, new)
  <2>1. place'.links = PathLinks(place'.top, hdspath) \o LinksAt(place'.top, Len(hdspath) + 1, new)
    BY <1>7, <1>8, <1>9, <1>10
  <2>2. hdspath[1].name = TopText
    <3>1. CASE front = <<>>
      <4>1. hdspath[1] = node
        BY <1>2, <3>1
      <4> QED
        BY <1>2, <3>1, <4>1 DEF Ends
    <3>2. CASE front # <<>>
      <4>1. hdspath[1] = front[1]
        BY <1>2, <3>2
      <4> QED
        BY <1>2, <3>2, <4>1 DEF Ends
    <3> QED
      BY <3>1, <3>2
  <2>3. \A i \in 1..Len(hdspath) : hdspath[i] = IF i = Len(hdspath) THEN node ELSE front[i]
    BY <1>2
  <2>4. \A i \in 1..Len(hdspath) : i = Len(hdspath) \/ i \in 1..Len(front)
    BY <1>3
  <2>5. \A i \in 1..Len(hdspath) : hdspath[i].slice = <<>>
    BY <1>2, <1>5, <2>3, <2>4 DEF Ends
  <2>6. \A i \in 2..Len(hdspath) : hdspath[i].name \in DOMAIN Components
    <3>1. \A i \in 2..Len(hdspath) : i \in 1..Len(hdspath) /\ (i = Len(hdspath) => front # <<>>)
             /\ (i # Len(hdspath) => i \in 2..Len(front))
      BY <1>3
    <3> QED
      BY <1>2, <2>3, <3>1 DEF Ends
  <2>7. new.name = name /\ new.slice = <<>> /\ new.cell = <<>>
    BY DEF OneNode
  <2> QED
    BY <1>1, <1>5, <1>7, <2>1, <2>2, <2>5, <2>6, <2>7 DEF Ends
<1> QED
  BY <1>1, <1>3, <1>4, <1>7, <1>11 DEF NamesInv, EndsPath

\* The last node is another one.
LEMMA LastNode ==
    ASSUME NEW front \in Seq(Node), NEW node \in Node, NEW new \in Node
    PROVE  LET path == Append(front, node)
           IN /\ path \in Seq(Node) /\ path # <<>> /\ Len(path) = Len(front) + 1
              /\ Last(path) = node /\ path[Len(path)] = node /\ Front(path) = front
              /\ [path EXCEPT ![Len(path)] = new] = Append(front, new)
<1> DEFINE path == Append(front, node)
           n == Len(front)
           changed == [path EXCEPT ![Len(path)] = new]
<1>1. n \in Nat /\ path \in Seq(Node) /\ Len(path) = n + 1 /\ path[n + 1] = node
      /\ \A i \in 1..n : path[i] = front[i]
  OBVIOUS
<1>2. Append(front, new) \in Seq(Node) /\ Len(Append(front, new)) = n + 1 /\ Append(front, new)[n + 1] = new
      /\ \A i \in 1..n : Append(front, new)[i] = front[i]
  OBVIOUS
<1>3. Front(path) = front
  BY <1>1 DEF Front
<1> HIDE DEF n
<1> DEFINE other == Append(front, new)
<1> HIDE DEF path, other
<1>4. changed \in Seq(Node) /\ Len(changed) = n + 1 /\ \A i \in 1..(n + 1) : changed[i] = other[i]
  <2>1. n + 1 \in 1..(n + 1) /\ \A i \in 1..(n + 1) : i = n + 1 \/ i \in 1..n
    BY <1>1
  <2>2. changed \in Seq(Node) /\ Len(changed) = n + 1
    BY <1>1
  <2>3. changed[n + 1] = new /\ \A i \in 1..n : changed[i] = path[i]
    BY <1>1, <2>1
  <2> HIDE DEF changed
  <2> QED
    BY <1>1, <1>2, <2>1, <2>2, <2>3 DEF other
<1> HIDE DEF changed
<1>5. changed = other
  BY <1>1, <1>2, <1>4 DEF other
<1> QED
  BY <1>1, <1>3, <1>5 DEF path, other, changed, n, Last

\* datCell does, of a structure array.
LEMMA CellInv ==
    ASSUME NamesInv, CellNamed
    PROVE  NamesInv'
<1> DEFINE kind == KindOf(place)
<1>1. kind.isstruct /\ kind # Scalar
  BY DEF CellNamed
<1>2. PICK c \in Coords(kind.dims) :
         /\ place' = [place EXCEPT !.links = Append(@, Coords2CellName(c))]
         /\ hdspath' = [hdspath EXCEPT ![Len(hdspath)].cell = c]
  BY DEF CellNamed
<1>3. ASSUME hdspath = <<>>, ~place.top.isstruct, place.links = <<>> PROVE FALSE
  BY <1>1, <1>3 DEF KindOf
<1>4. PICK front \in Seq(Node), node \in Node : hdspath = Append(front, node) /\ Ends(place, front, node)
  BY <1>3 DEF NamesInv, EndsPath
<1>5. place \in Place
  BY DEF NamesInv
<1>6. kind \in Kind /\ node.cell = <<>> /\ (front = <<>> => kind = place.top)
  BY <1>1, <1>4, <1>5, KindAtEnd
<1>7. place.bounds = <<>> /\ place.top.isstruct
  BY <1>1, <1>4, <1>6 DEF Ends
<1>8. kind.dims # <<>>
  <2> SUFFICES ASSUME kind.dims = <<>> PROVE kind = Scalar
    BY <1>1
  <2>1. kind = [isstruct |-> kind.isstruct, dims |-> kind.dims] /\ kind.isstruct = TRUE
    BY <1>1, <1>6 DEF Kind
  <2> QED
    BY <2>1 DEF Scalar
<1> HIDE DEF kind
<1>9. c \in Coordinates
  BY <1>2, <1>6, <1>8, CoordsOk
<1> DEFINE l == Coords2CellName(c)
           new == [node EXCEPT !.cell = c]
           more == Append(place.links, l)
<1>10. l \in Link /\ new \in Node
  BY <1>9 DEF Link, CellLink, Node
<1>11. new.cell = c /\ new.name = node.name /\ new.slice = node.slice /\ c # <<>>
  BY <1>9 DEF Node, Coordinates
<1>12. hdspath' = Append(front, new)
  <2>1. hdspath' = [hdspath EXCEPT ![Len(hdspath)] = [hdspath[Len(hdspath)] EXCEPT !.cell = c]]
    BY <1>2
  <2>2. hdspath[Len(hdspath)] = node
    BY <1>4, <1>10, LastNode
  <2> HIDE DEF new
  <2>3. [hdspath EXCEPT ![Len(hdspath)] = new] = Append(front, new)
    BY <1>4, <1>10, LastNode
  <2> QED
    BY <2>1, <2>2, <2>3 DEF new
<1> HIDE DEF new, l
<1>13. place.links \in Seq(Link) /\ more \in Seq(Link)
  BY <1>5, <1>10 DEF Place
<1>14. place' \in Place /\ place'.links = more /\ place'.top = place.top /\ place'.bounds = place.bounds
  <2> HIDE DEF more
  <2> QED
    BY <1>2, <1>5, <1>13 DEF Place, more, l
<1>15. more = PathLinks(place.top, front) \o LinksAt(place.top, Len(front) + 1, new)
  <2> DEFINE x == PathLinks(place.top, front)
             y == LinksAt(place.top, Len(front) + 1, node)
             z == LinksAt(place.top, Len(front) + 1, new)
             a == IF Len(front) + 1 = 1 /\ place.top.isstruct THEN <<>> ELSE <<node.name>>
  <2>1. x \in Seq(Link) /\ y \in Seq(Link)
    BY PathGrown, LinksAtOk
  <2>2. a \in Seq(Link)
    <3>1. node.name \in Link
      BY DEF Node, Link
    <3> QED
      BY <3>1, OneOrTwo
  <2>3. y = a \o <<>> /\ z = a \o <<l>>
    BY <1>6, <1>11 DEF LinksAt, l
  <2>4. place.links = x \o y
    BY <1>4 DEF Ends
  <2> HIDE DEF x, y, z, a
  <2>5. y = a
    BY <2>2, <2>3
  <2>6. more = x \o (a \o <<l>>)
    BY <1>10, <2>1, <2>2, <2>4, <2>5, AppendJoin
  <2> QED
    BY <2>3, <2>6 DEF x, z
<1> HIDE DEF more
<1>16. Ends(place', front, new)
  BY <1>4, <1>7, <1>11, <1>14, <1>15 DEF Ends
<1> QED
  BY <1>10, <1>12, <1>14, <1>16 DEF NamesInv, EndsPath

\* datSlice does, and datCell of a primitive.
LEMMA SliceInv ==
    ASSUME NamesInv, SliceNamed
    PROVE  NamesInv'
<1> DEFINE kind == KindOf(place)
           dims == kind.dims
<1>1. ~kind.isstruct /\ dims # <<>> /\ place.bounds = <<>>
  BY DEF SliceNamed
<1>2. PICK lo \in Coords(dims), up \in Coords(dims) :
         LET b == [i \in DOMAIN dims |-> <<lo[i], up[i]>>]
         IN /\ place' = [place EXCEPT !.bounds = b]
            /\ hdspath' = [hdspath EXCEPT ![Len(hdspath)].slice = b]
  BY DEF SliceNamed
<1> DEFINE b == [i \in DOMAIN dims |-> <<lo[i], up[i]>>]
<1>3. ASSUME hdspath = <<>>, ~place.top.isstruct, place.links = <<>> PROVE FALSE
  BY <1>1, <1>3 DEF KindOf, Scalar
<1>4. PICK front \in Seq(Node), node \in Node : hdspath = Append(front, node) /\ Ends(place, front, node)
  BY <1>3 DEF NamesInv, EndsPath
<1>5. place \in Place
  BY DEF NamesInv
<1>6. kind \in Kind /\ node.cell = <<>>
  <2>1. Scalar.isstruct
    BY DEF Scalar
  <2> QED
    BY <1>1, <1>4, <1>5, <2>1, KindAtEnd
<1> HIDE DEF kind
<1>7. lo \in Coordinates /\ up \in Coordinates /\ DOMAIN lo = DOMAIN dims /\ DOMAIN up = DOMAIN dims
  BY <1>1, <1>6, CoordsOk
<1>8. b \in Bounds
  <2>1. DOMAIN dims = 1..Len(dims) /\ Len(dims) \in Nat /\ Len(dims) # 0
    BY <1>1, <1>6 DEF Kind
  <2>2. \A i \in 1..Len(dims) : lo[i] \in DOMAIN Numeral /\ up[i] \in DOMAIN Numeral
    BY <1>7, <2>1 DEF Coordinates
  <2> HIDE DEF dims
  <2>3. b \in [1..Len(dims) -> (DOMAIN Numeral) \X (DOMAIN Numeral)]
    BY <2>1, <2>2
  <2> HIDE DEF b
  <2>4. b \in Seq((DOMAIN Numeral) \X (DOMAIN Numeral)) /\ Len(b) = Len(dims)
    BY <2>1, <2>3
  <2> QED
    BY <2>1, <2>4 DEF Bounds
<1>9. place' = [place EXCEPT !.bounds = b] /\ hdspath' = [hdspath EXCEPT ![Len(hdspath)].slice = b]
  BY <1>2
<1> HIDE DEF b, dims
<1> DEFINE new == [node EXCEPT !.slice = b]
<1>10. new \in Node /\ new.cell = node.cell /\ new.name = node.name /\ new.slice = b
  BY <1>8 DEF Node
<1>11. hdspath' = Append(front, new)
  <2>1. hdspath' = [hdspath EXCEPT ![Len(hdspath)] = [hdspath[Len(hdspath)] EXCEPT !.slice = b]]
    BY <1>9
  <2>2. hdspath[Len(hdspath)] = node
    BY <1>4, <1>10, LastNode
  <2> HIDE DEF new
  <2>3. [hdspath EXCEPT ![Len(hdspath)] = new] = Append(front, new)
    BY <1>4, <1>10, LastNode
  <2> QED
    BY <2>1, <2>2, <2>3 DEF new
<1> HIDE DEF new
<1>12. place' \in Place /\ place'.links = place.links /\ place'.top = place.top /\ place'.bounds = b
  BY <1>5, <1>8, <1>9 DEF Place
<1>13. KindOf(place') = kind
  BY <1>12 DEF KindOf, kind
<1>14. \A i : LinksAt(place.top, i, new) = LinksAt(place.top, i, node)
  BY <1>10 DEF LinksAt
<1>15. Ends(place', front, new)
  BY <1>1, <1>4, <1>6, <1>10, <1>12, <1>13, <1>14 DEF Ends
<1> QED
  BY <1>10, <1>11, <1>12, <1>15 DEF NamesInv, EndsPath

\* datParen does.
LEMMA ParentInv ==
    ASSUME NamesInv, ParentNamed
    PROVE  NamesInv'
<1>1. /\ place.links # <<>>
      /\ place' = [place EXCEPT !.links = Front(@), !.bounds = <<>>]
      /\ hdspath' = IF Last(hdspath).cell # <<>>
                    THEN [hdspath EXCEPT ![Len(hdspath)].cell = <<>>]
                    ELSE Front(hdspath)
  BY DEF ParentNamed
<1>2. PICK front \in Seq(Node), node \in Node : hdspath = Append(front, node) /\ Ends(place, front, node)
  BY <1>1 DEF NamesInv, EndsPath
<1>3. place \in Place
  BY DEF NamesInv
<1>4. Last(hdspath) = node /\ hdspath[Len(hdspath)] = node /\ Front(hdspath) = front
  BY <1>2, LastNode
<1> DEFINE x == PathLinks(place.top, front)
           a == IF Len(front) + 1 = 1 /\ place.top.isstruct THEN <<>> ELSE <<node.name>>
<1>5. node.name \in Link
  BY DEF Node, Link
<1>6. x \in Seq(Link) /\ a \in Seq(Link) /\ (front = <<>> => x = <<>>)
  BY <1>5, PathGrown, OneOrTwo
<1>7. place.links = x \o LinksAt(place.top, Len(front) + 1, node)
  BY <1>2 DEF Ends
<1>8. CASE node.cell # <<>>
  <2> DEFINE l == Coords2CellName(node.cell)
             new == [node EXCEPT !.cell = <<>>]
  <2>1. l \in Link
    BY <1>8 DEF Node, Link, CellLink
  <2>2. LinksAt(place.top, Len(front) + 1, node) = a \o <<l>>
    BY <1>8 DEF LinksAt
  <2>3. new \in Node /\ new.cell = <<>> /\ new.name = node.name /\ new.slice = node.slice
    BY DEF Node
  <2>4. LinksAt(place.top, Len(front) + 1, new) = a \o <<>>
    BY <2>3 DEF LinksAt
  <2>5. hdspath' = Append(front, new)
    <3>1. hdspath' = [hdspath EXCEPT ![Len(hdspath)] = [hdspath[Len(hdspath)] EXCEPT !.cell = <<>>]]
      BY <1>1, <1>4, <1>8
    <3> HIDE DEF new
    <3>2. [hdspath EXCEPT ![Len(hdspath)] = new] = Append(front, new)
      BY <1>2, <2>3, LastNode
    <3> QED
      BY <1>4, <3>1, <3>2 DEF new
  <2> HIDE DEF l, new, a, x
  <2>6. Front(place.links) = x \o a /\ x \o a \in Seq(Link)
    <3> DEFINE y == x \o a
    <3>1. y \in Seq(Link) /\ place.links = y \o <<l>>
      <4>1. (x \o a) \o <<l>> = x \o (a \o <<l>>)
        BY <1>6, <2>1, OneOrTwo, JoinJoin
      <4> QED
        BY <1>6, <1>7, <2>2, <4>1, JoinOk
    <3> HIDE DEF y
    <3>2. Front(y \o <<l>>) = y
      BY <2>1, <3>1, FrontJoin
    <3> QED
      BY <3>1, <3>2 DEF y
  <2>7. place' \in Place /\ place'.links = x \o a /\ place'.top = place.top /\ place'.bounds = <<>>
    <3> DEFINE y == x \o a
    <3>1. y \in Seq(Link) /\ place' = [place EXCEPT !.links = y, !.bounds = <<>>]
      BY <1>1, <2>6
    <3> HIDE DEF y
    <3>2. place' \in Place /\ place'.links = y /\ place'.top = place.top /\ place'.bounds = <<>>
      BY <1>3, <3>1 DEF Place
    <3> QED
      BY <3>2 DEF y
  <2>8. a \o <<>> = a
    BY <1>6, JoinJoin
  <2>9. place'.links = PathLinks(place'.top, front) \o LinksAt(place'.top, Len(front) + 1, new)
    BY <2>4, <2>7, <2>8 DEF x
  <2>10. Ends(place', front, new)
    BY <1>2, <1>8, <2>3, <2>7, <2>9 DEF Ends
  <2> QED
    BY <2>3, <2>5, <2>7, <2>10 DEF NamesInv, EndsPath
<1>9. CASE node.cell = <<>>
  <2>1. place.links = x \o a
    <3>1. LinksAt(place.top, Len(front) + 1, node) = a \o <<>>
      BY <1>9 DEF LinksAt
    <3> HIDE DEF a, x
    <3>2. a \o <<>> = a
      BY <1>6, JoinJoin
    <3> QED
      BY <1>7, <3>1, <3>2
  <2>2. a = <<node.name>>
    <3> SUFFICES ASSUME Len(front) + 1 = 1 /\ place.top.isstruct PROVE FALSE
      OBVIOUS
    <3>1. x = <<>> /\ a = <<>>
      <4>1. front = <<>>
        OBVIOUS
      <4> QED
        BY <1>6, <4>1
    <3> HIDE DEF x, a
    <3>2. x \o a = <<>>
      BY <3>1
    <3> QED
      BY <1>1, <2>1, <3>2
  <2>3. hdspath' = front
    BY <1>1, <1>4, <1>9
  <2> DEFINE n == node.name
  <2> HIDE DEF x, a, n
  <2>4. Front(place.links) = x
    <3>1. Front(x \o <<n>>) = x
      BY <1>5, <1>6, FrontJoin DEF n
    <3> QED
      BY <2>1, <2>2, <3>1 DEF n
  <2>5. place' \in Place /\ place'.links = x /\ place'.top = place.top /\ place'.bounds = <<>>
    <3>1. place' = [place EXCEPT !.links = x, !.bounds = <<>>]
      BY <1>1, <2>4
    <3> QED
      BY <1>3, <1>6, <3>1 DEF Place
  <2>6. CASE front = <<>>
    <3>1. ~place.top.isstruct
      <4> SUFFICES ASSUME place.top.isstruct PROVE FALSE
        OBVIOUS
      <4>1. Len(front) + 1 = 1
        BY <2>6
      <4>2. a = <<>> /\ x = <<>>
        BY <1>6, <2>6, <4>1 DEF a
      <4>3. x \o a = <<>>
        BY <4>2
      <4> QED
        BY <1>1, <2>1, <4>3
    <3> QED
      BY <1>6, <2>3, <2>5, <2>6, <3>1 DEF NamesInv
  <2>7. CASE front # <<>>
    <3> DEFINE m == Len(front)
               f == SubSeq(front, 1, m - 1)
               o == front[m]
    <3>1. /\ m \in Nat \ {0} /\ f \in Seq(Node) /\ o \in Node /\ front = Append(f, o) /\ Len(f) = m - 1
          /\ \A i \in 1..(m - 1) : f[i] = front[i]
      BY <2>7, FrontLast
    <3> HIDE DEF f, o
    <3>2. PathLinks(place.top, front) = PathLinks(place.top, f) \o LinksAt(place.top, Len(f) + 1, o)
      BY <3>1, PathGrown
    <3> HIDE DEF m
    <3>3. o.name = IF f = <<>> THEN TopText ELSE o.name
      <4>1. f = <<>> => m = 1
        BY <3>1
      <4> QED
        BY <1>2, <2>7, <4>1 DEF Ends, o
    <3>4. f # <<>> => f[1].name = TopText /\ o.name \in DOMAIN Components
      <4>1. f # <<>> => 1 \in 1..(m - 1) /\ m \in 2..m
        BY <3>1
      <4>2. \A i \in 2..m : front[i].name \in DOMAIN Components
        BY <1>2 DEF Ends, m
      <4> QED
        BY <1>2, <2>7, <3>1, <4>1, <4>2 DEF Ends, o
    <3>5. o.slice = <<>> /\ \A i \in 1..Len(f) : f[i].slice = <<>>
      <4>1. \A i \in 1..m : front[i].slice = <<>>
        BY <1>2 DEF Ends, m
      <4>2. m \in 1..m /\ \A i \in 1..Len(f) : i \in 1..m /\ i \in 1..(m - 1)
        BY <3>1
      <4> QED
        BY <3>1, <4>1, <4>2 DEF o
    <3>6. \A i \in 2..Len(f) : f[i].name \in DOMAIN Components
      <4>1. \A i \in 2..m : front[i].name \in DOMAIN Components
        BY <1>2 DEF Ends, m
      <4>2. \A i \in 2..Len(f) : i \in 2..m /\ i \in 1..(m - 1)
        BY <3>1
      <4> QED
        BY <3>1, <4>1, <4>2
    <3>7. place.top.isstruct
      BY <1>2, <2>7 DEF Ends
    <3>8. place'.links = PathLinks(place'.top, f) \o LinksAt(place'.top, Len(f) + 1, o)
      BY <2>5, <3>2 DEF x
    <3>9. Ends(place', f, o)
      BY <2>5, <3>3, <3>4, <3>5, <3>6, <3>7, <3>8 DEF Ends
    <3> QED
      BY <2>3, <2>5, <3>1, <3>9 DEF NamesInv, EndsPath
  <2> QED
    BY <2>6, <2>7
<1> QED
  BY <1>8, <1>9

\* The invariant holds always.
LEMMA NamesInvHolds == NamesSpec => []NamesInv
<1>1. NInit => NamesInv
  BY TopOk DEF NInit, NamesInv
<1>2. NamesInv /\ [NamesNext]_nameVars => NamesInv'
  <2> SUFFICES ASSUME NamesInv, [NamesNext]_nameVars PROVE NamesInv'
    OBVIOUS
  <2>1. CASE OpenAnother
    <3>1. place' \in TopPlaces /\ hdspath' = <<OneNode(TopText)>>
      BY <2>1 DEF OpenAnother
    <3>2. place' \in Place /\ EndsPath(place', <<OneNode(TopText)>>)
      BY <3>1, TopOk
    <3> QED
      BY <3>1, <3>2 DEF NamesInv
  <2>2. ASSUME NEW text \in Spelling, FindNamed(text) PROVE NamesInv'
    BY <2>2, FindInv
  <2>3. CASE CellNamed
    BY <2>3, CellInv
  <2>4. CASE SliceNamed
    BY <2>4, SliceInv
  <2>5. CASE ParentNamed
    BY <2>5, ParentInv
  <2>6. CASE UNCHANGED nameVars
    BY <2>6 DEF nameVars, NamesInv
  <2> QED
    BY <2>1, <2>2, <2>3, <2>4, <2>5, <2>6 DEF NamesNext
<1> QED
  BY <1>1, <1>2, PTL DEF NamesSpec

-----------------------------------------------------------------------------
(* Names: what is told of an object *)

\* A text with dots for its slashes, and what follows a character for the last time.
Dotted(t) == [i \in DOMAIN t |-> IF t[i] = "/" THEN "." ELSE t[i]]
AfterLast(t, c) == From(t, LastSpot(t, c) + 1)

\* A text without the character "/".
LEMMA NoSlash ==
    ASSUME NEW u \in Text, Unslashed(u)
    PROVE  Spots(u, "/") = {} /\ Dotted(u) = u /\ AfterLast(u, "/") = u
<1>1. u \in Seq(Char1) /\ DOMAIN u = 1..Len(u) /\ Len(u) \in Nat
  BY DEF Text
<1>2. Spots(u, "/") = {}
  BY <1>1 DEF Spots, Unslashed
<1>3. Dotted(u) = u
  BY <1>1 DEF Dotted, Unslashed
<1>4. LastSpot(u, "/") = 0
  <2>1. {0} \cup {} = {0} /\ Max({0}) = 0
    BY DEF Max
  <2> QED
    BY <1>2, <2>1 DEF LastSpot
<1>5. SubSeq(u, 1, Len(u)) = u
  BY <1>1
<1> QED
  BY <1>2, <1>3, <1>4, <1>5 DEF AfterLast, From

\* The last of all places, and one after the last of the others.
LEMMA MaxJoined ==
    ASSUME NEW k \in Nat, NEW S \in SUBSET (1..k)
    PROVE  Max({0} \cup (S \cup {k + 1})) = k + 1 /\ k + 1 \notin S
<1>1. k + 1 \notin S /\ \A y \in {0} \cup (S \cup {k + 1}) : y \in Int /\ y <= k + 1
  OBVIOUS
<1>2. \A x \in {0} \cup (S \cup {k + 1}) :
         (\A y \in {0} \cup (S \cup {k + 1}) : x >= y) => x = k + 1
  BY <1>1
<1> QED
  BY <1>1, <1>2 DEF Max

\* A text after the character "/".
LEMMA SlashAdded ==
    ASSUME NEW w \in Text, NEW u \in Text, Unslashed(u)
    PROVE  LET t == w \o (<<"/">> \o u)
           IN /\ t \in Text /\ Len(t) = Len(w) + 1 + Len(u)
              /\ Spots(t, "/") = Spots(w, "/") \cup {Len(w) + 1}
              /\ Spots(w, "/") \subseteq 1..Len(w)
              /\ Dotted(t) = Dotted(w) \o (<<".">> \o u)
              /\ AfterLast(t, "/") = u
<1> DEFINE slash == "/"
           dot == "."
           t == w \o (<<slash>> \o u)
           m == Len(w)
           n == Len(u)
<1>1. slash \in Char1 /\ dot \in Char1
  BY DEF Char1
<1>2. w \in Seq(Char1) /\ u \in Seq(Char1) /\ m \in Nat /\ n \in Nat
      /\ DOMAIN w = 1..m /\ DOMAIN u = 1..n /\ \A i \in 1..n : u[i] # slash
  BY DEF Text, Unslashed
<1> HIDE DEF slash, dot
<1>3. /\ t \in Seq(Char1) /\ Len(t) = m + 1 + n /\ DOMAIN t = 1..(m + 1 + n)
      /\ \A i \in 1..m : t[i] = w[i]
      /\ t[m + 1] = slash
      /\ \A i \in 1..n : t[m + 1 + i] = u[i]
  <2> DEFINE x == <<slash>> \o u
  <2>1. x \in Seq(Char1) /\ Len(x) = 1 + n /\ x[1] = slash /\ \A i \in 1..n : x[1 + i] = u[i]
    BY <1>1, <1>2
  <2> HIDE DEF x, m, n
  <2>2. w \o x \in Seq(Char1) /\ Len(w \o x) = m + (1 + n)
        /\ (\A i \in 1..m : (w \o x)[i] = w[i]) /\ \A i \in 1..(1 + n) : (w \o x)[m + i] = x[i]
    <3>1. Joined(w \o x, w, x, Char1)
      BY <1>2, <2>1, JoinedOk
    <3> DEFINE y == w \o x
    <3> HIDE DEF y
    <3> QED
      BY <2>1, <3>1 DEF m, y, Joined
  <2> DEFINE y == w \o x
  <2> HIDE DEF y
  <2>3. y \in Seq(Char1) /\ Len(y) = m + (1 + n)
        /\ (\A i \in 1..m : y[i] = w[i]) /\ \A i \in 1..(1 + n) : y[m + i] = x[i]
    BY <2>2 DEF y
  <2>4. 1 \in 1..(1 + n) /\ \A i \in 1..n : 1 + i \in 1..(1 + n) /\ m + (1 + i) = m + 1 + i
    BY <1>2
  <2>5. y[m + 1] = slash /\ \A i \in 1..n : y[m + 1 + i] = u[i]
    BY <2>1, <2>3, <2>4
  <2>6. m + (1 + n) = m + 1 + n /\ DOMAIN y = 1..Len(y)
    BY <1>2, <2>3
  <2> QED
    BY <2>3, <2>5, <2>6 DEF y, x
<1> DEFINE S == Spots(w, slash)
           D == Spots(t, slash)
           more == Dotted(w) \o (<<dot>> \o u)
<1>4. \A i \in 1..(m + 1 + n) : i \in 1..m \/ i = m + 1 \/ (i - (m + 1) \in 1..n /\ i = m + 1 + (i - (m + 1)))
  BY <1>2
<1> HIDE DEF t, m, n
<1>5. S \subseteq 1..m /\ \A i \in 1..m : i \in S <=> w[i] = slash
  BY <1>2 DEF Spots
<1>6. D \subseteq 1..(m + 1 + n) /\ \A i \in 1..(m + 1 + n) : i \in D <=> t[i] = slash
  BY <1>3 DEF Spots
<1> HIDE DEF S, D
<1>7. D = S \cup {m + 1}
  <2>1. \A i \in 1..m : i \in 1..(m + 1 + n) /\ i # m + 1
    BY <1>2
  <2>2. m + 1 \in 1..(m + 1 + n)
    BY <1>2
  <2>3. ASSUME NEW i \in D PROVE i \in S \cup {m + 1}
    <3>1. i \in 1..(m + 1 + n) /\ t[i] = slash
      BY <1>6, <2>3
    <3>2. CASE i \in 1..m
      BY <1>3, <1>5, <3>1, <3>2
    <3>3. CASE i - (m + 1) \in 1..n /\ i = m + 1 + (i - (m + 1))
      BY <1>2, <1>3, <3>1, <3>3
    <3> QED
      BY <1>4, <3>1, <3>2, <3>3
  <2>4. \A i \in S : i \in D
    BY <1>3, <1>5, <1>6, <2>1
  <2> QED
    BY <1>3, <1>6, <2>2, <2>3, <2>4
<1>8. Dotted(t) = more
  <2> DEFINE a == Dotted(w)
             d == Dotted(t)
             x == <<dot>> \o u
  <2>1. a \in Seq(Char1) /\ Len(a) = m /\ \A i \in 1..m : a[i] = IF w[i] = slash THEN dot ELSE w[i]
    <3>1. \A i \in 1..m : w[i] \in Char1
      BY <1>2 DEF m
    <3>2. a = [i \in 1..m |-> IF w[i] = slash THEN dot ELSE w[i]]
      BY <1>2 DEF Dotted, slash, dot
    <3> HIDE DEF a
    <3>3. a \in [1..m -> Char1]
      BY <1>1, <3>1, <3>2
    <3> QED
      BY <1>2, <3>2, <3>3
  <2>2. d \in Seq(Char1) /\ Len(d) = m + 1 + n
        /\ \A i \in 1..(m + 1 + n) : d[i] = IF t[i] = slash THEN dot ELSE t[i]
    <3>1. \A i \in 1..(m + 1 + n) : t[i] \in Char1
      BY <1>3
    <3>2. d = [i \in 1..(m + 1 + n) |-> IF t[i] = slash THEN dot ELSE t[i]]
      BY <1>3 DEF Dotted, slash, dot
    <3> HIDE DEF d
    <3>3. d \in [1..(m + 1 + n) -> Char1]
      BY <1>1, <3>1, <3>2
    <3>4. m + 1 + n \in Nat
      BY <1>2
    <3> QED
      BY <3>2, <3>3, <3>4
  <2>3. x \in Seq(Char1) /\ Len(x) = 1 + n /\ x[1] = dot /\ \A i \in 1..n : x[1 + i] = u[i]
    BY <1>1, <1>2 DEF n
  <2> HIDE DEF a, d, x
  <2> DEFINE y == a \o x
  <2>4. y \in Seq(Char1) /\ Len(y) = m + (1 + n)
        /\ (\A i \in 1..m : y[i] = a[i]) /\ \A i \in 1..(1 + n) : y[m + i] = x[i]
    <3>1. Joined(y, a, x, Char1)
      BY <2>1, <2>3, JoinedOk
    <3> HIDE DEF y
    <3> QED
      BY <2>1, <2>3, <3>1 DEF Joined
  <2> HIDE DEF y
  <2>5. ASSUME NEW i \in 1..(m + 1 + n) PROVE d[i] = y[i]
    <3>1. CASE i \in 1..m
      BY SMTT(40), <1>3, <2>1, <2>2, <2>4, <3>1
    <3>2. CASE i = m + 1
      <4>1. 1 \in 1..(1 + n)
        BY <1>2
      <4>2. y[i] = dot
        BY <2>3, <2>4, <3>2, <4>1
      <4> QED
        BY <1>3, <2>2, <3>2, <4>2
    <3>3. CASE i - (m + 1) \in 1..n /\ i = m + 1 + (i - (m + 1))
      <4> DEFINE j == i - (m + 1)
      <4>1. j \in 1..n /\ i = m + 1 + j /\ 1 + j \in 1..(1 + n) /\ m + (1 + j) = i
        BY <1>2, <3>3
      <4> HIDE DEF j
      <4>2. t[i] = u[j] /\ u[j] # slash /\ y[i] = x[1 + j] /\ x[1 + j] = u[j]
        BY <1>2, <1>3, <2>3, <2>4, <4>1
      <4> QED
        BY <2>2, <4>2
    <3> QED
      BY <1>4, <3>1, <3>2, <3>3
  <2>6. m + (1 + n) = m + 1 + n
    BY <1>2
  <2>7. d = y
    BY <2>2, <2>4, <2>5, <2>6
  <2> QED
    BY <2>7 DEF d, y, a, x
<1>9. AfterLast(t, slash) = u
  <2>1. Max({0} \cup D) = m + 1
    <3>1. S \in SUBSET (1..m)
      BY <1>5
    <3> QED
      BY <1>2, <1>7, <3>1, MaxJoined
  <2>2. AfterLast(t, slash) = SubSeq(t, m + 1 + 1, m + 1 + n)
    BY <1>3, <2>1 DEF AfterLast, From, LastSpot, D
  <2> DEFINE v == SubSeq(t, m + 1 + 1, m + 1 + n)
  <2>3. v \in Seq(Char1) /\ Len(v) = n
    BY <1>2, <1>3
  <2>4. \A i \in 1..n : v[i] = t[m + 1 + i]
    BY <1>2, <1>3
  <2> HIDE DEF v
  <2>5. v = u
    <3>1. \A i \in 1..n : v[i] = u[i]
      BY <1>3, <2>4
    <3>2. u \in Seq(Char1) /\ Len(u) = n
      BY <1>2 DEF n
    <3> QED
      BY <2>3, <3>1, <3>2
  <2> QED
    BY <2>2, <2>5 DEF v
<1> HIDE DEF more
<1>10. /\ t \in Text /\ Len(t) = m + 1 + n /\ D = S \cup {m + 1} /\ S \subseteq 1..m
       /\ Dotted(t) = more /\ AfterLast(t, slash) = u
  BY <1>3, <1>5, <1>7, <1>8, <1>9 DEF Text
<1> QED
  BY <1>10 DEF t, m, n, S, D, more, slash, dot

\* What HDS writes for a cell, and what it makes of the links of a node.
CellSub(node) == IF node.cell = <<>> THEN <<>> ELSE EncodeSubscript(Pairs(node.cell))

\* A name and the subscript after it have no slash.
LEMMA CellSubOk ==
    ASSUME NEW node \in Node
    PROVE  /\ CellSub(node) \in Text /\ Unslashed(CellSub(node))
           /\ node.cell # <<>> => Len(CellSub(node)) >= 2
           /\ node.name \in Text /\ Len(node.name) >= 1
           /\ node.name \o CellSub(node) \in Text /\ Unslashed(node.name \o CellSub(node))
<1> DEFINE s == CellSub(node)
           name == node.name
           both == name \o s
<1>1. s \in Text /\ Unslashed(s) /\ (node.cell # <<>> => Len(s) >= 2)
  <2>1. CASE node.cell = <<>>
    BY <2>1 DEF CellSub, Text, Unslashed
  <2>2. CASE node.cell # <<>>
    <3> DEFINE e == EncodeSubscript(Pairs(node.cell))
    <3>1. node.cell \in Coordinates
      BY <2>2 DEF Node
    <3>2. e \in Seq(SubChar) /\ Len(e) >= 2
      BY <3>1, PairsOk, EncodeOk
    <3>3. s = e
      BY <2>2 DEF CellSub
    <3> HIDE DEF e, s
    <3> QED
      BY <3>2, <3>3, NamesOk DEF Text, Unslashed
  <2> QED
    BY <2>1, <2>2
<1>2. name \in Text /\ Len(name) >= 1 /\ Unslashed(name)
  <2>1. name \in NameSet
    BY DEF Node
  <2>2. name \in Seq(NameChar) /\ name \in Text /\ Len(name) >= 1
    BY <2>1, NamesOk, NameShown
  <2> HIDE DEF name
  <2> QED
    BY <2>2, NamesOk DEF Unslashed
<1> HIDE DEF s, name
<1>3. Joined(both, name, s, Char1)
  BY <1>1, <1>2, JoinedOk DEF Text
<1> HIDE DEF both
<1>4. both \in Text /\ Len(both) = Len(name) + Len(s)
  BY <1>3 DEF Joined, Text
<1>5. Unslashed(both)
  <2>1. \A i \in 1..Len(both) : i \in 1..Len(name)
           \/ (i - Len(name) \in 1..Len(s) /\ i = Len(name) + (i - Len(name)))
    BY <1>1, <1>2, <1>4 DEF Text
  <2> SUFFICES ASSUME NEW i \in 1..Len(both) PROVE both[i] # "/"
    BY DEF Unslashed
  <2>2. CASE i \in 1..Len(name)
    BY <1>2, <1>3, <2>2 DEF Joined, Unslashed
  <2>3. CASE i - Len(name) \in 1..Len(s) /\ i = Len(name) + (i - Len(name))
    <3>1. both[i] = s[i - Len(name)]
      BY <1>3, <2>3 DEF Joined
    <3> QED
      BY <1>1, <2>3, <3>1 DEF Unslashed
  <2> QED
    BY <2>1, <2>2, <2>3
<1> QED
  BY <1>1, <1>2, <1>4, <1>5 DEF s, name, both

\* What FixNameCell makes of the links of one more node.
LEMMA NodeCleaned ==
    ASSUME NEW top, NEW i, NEW links \in Seq(Link), NEW node \in Node
    PROVE  /\ Clean(links) \in Text
           /\ Clean(links \o LinksAt(top, i, node)) =
                 Clean(links) \o (IF i = 1 /\ top.isstruct THEN CellSub(node)
                                  ELSE <<"/">> \o (node.name \o CellSub(node)))
<1> DEFINE root == i = 1 /\ top.isstruct
           a == IF root THEN <<>> ELSE <<node.name>>
           links2 == links \o a
           c == Clean(links)
           c2 == Clean(links2)
           s == CellSub(node)
           slashed == <<"/">> \o node.name
<1>1. node.name \in NameSet /\ node.name \in Link
  BY DEF Node, Link
<1>2. a \in Seq(Link) /\ links2 \in Seq(Link)
  <2>1. a \in Seq(Link)
    BY <1>1, OneOrTwo
  <2> HIDE DEF a
  <2> QED
    BY <2>1, JoinOk
<1>3. c \in Text /\ c2 \in Text
  <2> HIDE DEF links2
  <2> QED
    BY <1>1, <1>2, CleanAppend
<1>4. s \in Text /\ node.name \in Text /\ slashed \in Text
  BY <1>1, CellSubOk, NameShown
<1>5. c2 = IF root THEN c ELSE c \o slashed
  <2>1. CASE root
    <3>1. links2 = links
      BY <2>1, JoinJoin
    <3> QED
      BY <2>1, <3>1
  <2>2. CASE ~root
    <3> DEFINE l == node.name
    <3>1. a = <<l>>
      BY <2>2
    <3>2. FixNameCell(<<"/">> \o l) = slashed
      BY <1>1, NameShown
    <3> HIDE DEF l
    <3>3. l \in Link
      BY <1>1 DEF l
    <3>4. links2 = Append(links, l)
      BY <3>1, <3>3, FrontJoin
    <3>5. Clean(Append(links, l)) = c \o FixNameCell(<<"/">> \o l)
      BY <3>3, CleanAppend
    <3> QED
      BY <2>2, <3>2, <3>4, <3>5
  <2> QED
    BY <2>1, <2>2
<1>6. Clean(links \o LinksAt(top, i, node)) = c2 \o s
  <2>1. CASE node.cell = <<>>
    <3>1. LinksAt(top, i, node) = a \o <<>> /\ s = <<>>
      BY <2>1 DEF LinksAt, CellSub
    <3> HIDE DEF a, s
    <3>2. a \o <<>> = a
      BY <1>2, JoinJoin
    <3>3. Clean(links \o LinksAt(top, i, node)) = c2
      BY <3>1, <3>2
    <3> HIDE DEF c2
    <3>4. c2 \o <<>> = c2
      BY <1>3, JoinJoin DEF Text
    <3> QED
      BY <3>1, <3>3, <3>4
  <2>2. CASE node.cell # <<>>
    <3> DEFINE l == Coords2CellName(node.cell)
    <3>1. node.cell \in Coordinates
      BY <2>2 DEF Node
    <3>2. l \in Link
      BY <3>1 DEF Link, CellLink
    <3>3. FixNameCell(<<"/">> \o l) = s
      BY <2>2, <3>1, CellShown DEF CellSub
    <3>4. LinksAt(top, i, node) = a \o <<l>>
      BY <2>2 DEF LinksAt
    <3> HIDE DEF l, a
    <3>5. links \o (a \o <<l>>) = Append(links2, l)
      BY <1>2, <3>2, AppendJoin
    <3> HIDE DEF links2
    <3>6. Clean(Append(links2, l)) = c2 \o FixNameCell(<<"/">> \o l)
      BY <1>2, <3>2, CleanAppend
    <3> QED
      BY <3>3, <3>4, <3>5, <3>6
  <2> QED
    BY <2>1, <2>2
<1>7. ASSUME ~root PROVE (c \o slashed) \o s = c \o (<<"/">> \o (node.name \o s))
  <2> DEFINE slash == <<"/">>
             name == node.name
  <2>1. slash \in Seq(Char1) /\ c \in Seq(Char1) /\ s \in Seq(Char1) /\ name \in Seq(Char1) /\ slashed = slash \o name
    <3>1. "/" \in Char1
      BY DEF Char1
    <3> QED
      BY <1>3, <1>4, <3>1, OneOrTwo DEF Text
  <2> HIDE DEF slash, name, c, s, slashed
  <2>2. slash \o name \in Seq(Char1)
    BY <2>1, JoinOk
  <2>3. (c \o (slash \o name)) \o s = c \o ((slash \o name) \o s)
    BY SMTT(40), <2>1, <2>2, JoinJoin
  <2>4. (slash \o name) \o s = slash \o (name \o s)
    BY <2>1, JoinJoin
  <2> QED
    BY <2>1, <2>3, <2>4 DEF slash, name
<1> HIDE DEF c, c2, s, slashed, root
<1>8. Clean(links \o LinksAt(top, i, node)) = c \o (IF root THEN s ELSE <<"/">> \o (node.name \o s))
  BY <1>5, <1>6, <1>7
<1> QED
  BY <1>3, <1>8 DEF c, s, root

\* What a node is in the written path.
Piece(i, node) == (IF i = 1 THEN <<>> ELSE <<".">>) \o (node.name \o Subscript(node))

\* A piece is text, and ends with the subscript of the cell or slice.
LEMMA PieceOk ==
    ASSUME NEW i, NEW node \in Node
    PROVE  /\ Subscript(node) \in Text /\ Piece(i, node) \in Text
           /\ node.slice = <<>> => Subscript(node) = CellSub(node)
           /\ node.cell = <<>> /\ node.slice # <<>> => Subscript(node) = EncodeSubscript(node.slice)
           /\ node.cell = <<>> => CellSub(node) = <<>>
<1> DEFINE s == Subscript(node)
           name == node.name
           dot == IF i = 1 THEN <<>> ELSE <<".">>
<1>1. Subscript(node) = IF node.cell # <<>> THEN EncodeSubscript(Pairs(node.cell))
                        ELSE IF node.slice # <<>> THEN EncodeSubscript(node.slice) ELSE <<>>
  BY DEF Subscript, Pairs
<1>2. s \in Text
  <2>1. CASE node.cell # <<>>
    <3>1. s = CellSub(node)
      BY <1>1, <2>1 DEF CellSub
    <3> QED
      BY <3>1, CellSubOk
  <2>2. CASE node.cell = <<>> /\ node.slice # <<>>
    <3> DEFINE e == EncodeSubscript(node.slice)
    <3>1. node.slice \in Bounds
      BY <2>2 DEF Node
    <3>2. e \in Seq(SubChar) /\ s = e
      BY <1>1, <2>2, <3>1, EncodeOk
    <3> HIDE DEF e, s
    <3> QED
      BY <3>2, NamesOk DEF Text
  <2>3. CASE node.cell = <<>> /\ node.slice = <<>>
    BY <1>1, <2>3 DEF Text
  <2> QED
    BY <2>1, <2>2, <2>3
<1>3. name \in Text /\ dot \in Text
  <2>1. "." \in Char1
    BY DEF Char1
  <2> QED
    BY <2>1, CellSubOk, OneOrTwo DEF Text
<1> HIDE DEF s, name, dot
<1>4. name \o s \in Text
  BY <1>2, <1>3, JoinOk DEF Text
<1>5. dot \o (name \o s) \in Text
  BY <1>3, <1>4, JoinOk DEF Text
<1>6. Piece(i, node) = dot \o (name \o s)
  BY DEF Piece, dot, name, s
<1> QED
  BY <1>1, <1>2, <1>5, <1>6 DEF s, CellSub

\* A written path with one more node.
LEMMA WrittenGrown ==
    ASSUME NEW path \in Seq(Node), NEW node \in Node
    PROVE  /\ Written(path) \in Text /\ Written(<<>>) = <<>>
           /\ Written(Append(path, node)) = Written(path) \o Piece(Len(path) + 1, node)
<1> DEFINE n == Len(path)
           more == Append(path, node)
           ss == [i \in DOMAIN path |-> Piece(i, path[i])]
           tt == [i \in DOMAIN more |-> Piece(i, more[i])]
           x == Piece(n + 1, node)
<1>1. n \in Nat /\ more \in Seq(Node) /\ DOMAIN more = 1..(n + 1) /\ DOMAIN path = 1..n
      /\ (\A i \in 1..n : more[i] = path[i] /\ path[i] \in Node) /\ more[n + 1] = node
  OBVIOUS
<1>2. x \in Text
  BY PieceOk
<1>3. \A q \in Seq(Node) : Written(q) = FlattenSeq([i \in DOMAIN q |-> Piece(i, q[i])])
  <2> TAKE q \in Seq(Node)
  <2>1. ASSUME NEW i \in DOMAIN q
        PROVE  (IF i = 1 THEN <<>> ELSE <<".">>) \o q[i].name \o Subscript(q[i]) = Piece(i, q[i])
    <3> DEFINE dot == IF i = 1 THEN <<>> ELSE <<".">>
               name == q[i].name
               s == Subscript(q[i])
    <3>1. q[i] \in Node
      OBVIOUS
    <3>2. name \in Seq(Char1) /\ s \in Seq(Char1)
      BY <3>1, CellSubOk, PieceOk DEF Text
    <3>3. dot \in Seq(Char1)
      <4>1. "." \in Char1
        BY DEF Char1
      <4> QED
        BY <4>1, OneOrTwo
    <3> HIDE DEF dot, name, s
    <3>4. (dot \o name) \o s = dot \o (name \o s)
      BY <3>2, <3>3, JoinJoin
    <3> QED
      BY <3>4 DEF dot, name, s, Piece
  <2> QED
    BY <2>1 DEF Written
<1>4. ss \in Seq(Text) /\ Len(ss) = n
  <2>1. \A i \in 1..n : Piece(i, path[i]) \in Text
    BY <1>1, PieceOk
  <2> HIDE DEF n
  <2>2. ss \in [1..n -> Text]
    BY <1>1, <2>1
  <2> QED
    BY <1>1, <2>2
<1>5. tt = Append(ss, x)
  <2> HIDE DEF n, more
  <2>1. \A i \in 1..n : tt[i] = Piece(i, path[i]) /\ ss[i] = Piece(i, path[i])
    BY <1>1
  <2>2. n + 1 \in 1..(n + 1) /\ tt[n + 1] = x
    BY <1>1
  <2>3. tt \in [1..(n + 1) -> Text]
    <3>1. \A i \in 1..(n + 1) : more[i] \in Node
      BY <1>1
    <3>2. \A i \in 1..(n + 1) : Piece(i, more[i]) \in Text
      BY <3>1, PieceOk
    <3> QED
      BY <1>1, <3>2
  <2> HIDE DEF tt, ss, x
  <2>4. tt \in Seq(Text) /\ Len(tt) = n + 1
    BY <1>1, <2>3
  <2> QED
    BY <1>1, <1>2, <1>4, <2>1, <2>2, <2>4
<1> HIDE DEF ss, tt, x
<1>6. FlattenSeq(ss) \in Text /\ FlattenSeq(tt) = FlattenSeq(ss) \o x
  BY <1>2, <1>4, <1>5, FlatAppend DEF Text
<1>7. Written(path) = FlattenSeq(ss) /\ Written(more) = FlattenSeq(tt)
  BY <1>1, <1>3 DEF ss, tt
<1>8. Written(<<>>) = <<>>
  BY DEF Written, FlattenSeq
<1> QED
  BY <1>6, <1>7, <1>8 DEF x, n, more

\* The path of the links to a node, as HDS writes it.
Whole(top, path) == TopText \o Clean(PathLinks(top, path))
Good(top, path) ==
    /\ Whole(top, path) \in Text
    /\ IsFiniteSet(Spots(Whole(top, path), "/"))
    /\ Cardinality(Spots(Whole(top, path), "/")) = Len(path) - 1
    /\ Dotted(Whole(top, path)) = Written(path)

\* The path of the links with one more node.
LEMMA WholeGrown ==
    ASSUME NEW top, NEW path \in Seq(Node), NEW node \in Node
    PROVE  /\ Whole(top, path) \in Text
           /\ path # <<>> \/ ~top.isstruct =>
                 Whole(top, Append(path, node)) = Whole(top, path) \o (<<"/">> \o (node.name \o CellSub(node)))
           /\ path = <<>> /\ top.isstruct =>
                 Whole(top, Append(path, node)) = Whole(top, path) \o CellSub(node)
           /\ path = <<>> => Whole(top, path) = TopText
<1> DEFINE links == PathLinks(top, path)
           c == Clean(links)
           u == IF Len(path) + 1 = 1 /\ top.isstruct THEN CellSub(node)
                ELSE <<"/">> \o (node.name \o CellSub(node))
<1>1. links \in Seq(Link) /\ (path = <<>> => links = <<>>)
      /\ PathLinks(top, Append(path, node)) = links \o LinksAt(top, Len(path) + 1, node)
  BY PathGrown
<1>2. TopText \in NameSet /\ TopText \in Link
  BY DEF NameSet, Link
<1>3. TopText \in Text
  BY <1>2, NameShown
<1> HIDE DEF links
<1>4. c \in Text /\ Clean(links \o LinksAt(top, Len(path) + 1, node)) = c \o u
  BY <1>1, NodeCleaned
<1>5. links = <<>> => c = <<>>
  BY <1>1, <1>2, CleanAppend
<1>6. CellSub(node) \in Text /\ node.name \o CellSub(node) \in Text
  BY CellSubOk
<1>7. u \in Text
  <2> DEFINE v == node.name \o CellSub(node)
  <2>1. "/" \in Char1
    BY DEF Char1
  <2>2. <<"/">> \in Text
    BY <2>1, OneOrTwo DEF Text
  <2>3. v \in Text
    BY <1>6
  <2> HIDE DEF v
  <2>4. <<"/">> \o v \in Text
    BY <2>2, <2>3, JoinOk DEF Text
  <2> QED
    BY <1>6, <2>4 DEF v
<1> HIDE DEF c, u
<1>8. TopText \o (c \o u) = (TopText \o c) \o u /\ TopText \o c \in Text
  BY SMTT(40), <1>3, <1>4, <1>7, JoinJoin, JoinOk DEF Text
<1>9. Whole(top, Append(path, node)) = Whole(top, path) \o u /\ Whole(top, path) \in Text
  BY <1>1, <1>4, <1>8 DEF Whole, links, c
<1>10. path = <<>> => Whole(top, path) = TopText
  <2>1. TopText \o <<>> = TopText
    BY <1>3, JoinJoin DEF Text
  <2> QED
    BY <1>1, <1>5, <2>1 DEF Whole, links, c
<1>11. Len(path) + 1 = 1 <=> path = <<>>
  OBVIOUS
<1> QED
  BY <1>9, <1>10, <1>11 DEF u

\* One node, the name on top.
LEMMA GoodStart ==
    ASSUME NEW top, top.isstruct, NEW node \in Node, node.name = TopText, node.slice = <<>>
    PROVE  Good(top, Append(<<>>, node))
<1> DEFINE u == node.name \o CellSub(node)
           none == <<>>
           path == Append(none, node)
<1>1. none \in Seq(Node) /\ path \in Seq(Node) /\ Len(none) = 0 /\ Len(path) = 1
  OBVIOUS
<1> HIDE DEF path
<1>2. u \in Text /\ Unslashed(u)
  BY CellSubOk
<1>3. Whole(top, path) = u
  <2>1. Whole(top, Append(none, node)) = Whole(top, none) \o CellSub(node) /\ Whole(top, none) = TopText
    BY <1>1, WholeGrown
  <2> QED
    BY <2>1 DEF path
<1>4. Written(path) = u
  <2> HIDE DEF u
  <2>1. Piece(1, node) = <<>> \o u
    BY PieceOk DEF Piece, u
  <2>2. <<>> \o u = u
    BY <1>2, JoinJoin DEF Text
  <2> HIDE DEF none
  <2>3. Written(Append(none, node)) = Written(none) \o Piece(Len(none) + 1, node) /\ Written(<<>>) = <<>>
    BY <1>1, WrittenGrown
  <2>4. Written(none) = <<>> /\ Len(none) + 1 = 1
    BY <1>1, <2>3 DEF none
  <2> QED
    BY <2>1, <2>2, <2>3, <2>4 DEF path
<1> HIDE DEF u
<1>5. Spots(u, "/") = {} /\ Dotted(u) = u
  BY <1>2, NoSlash
<1>6. IsFiniteSet({}) /\ Cardinality({}) = 0
  BY FS_EmptySet
<1>7. Good(top, path)
  BY SMTT(40), <1>1, <1>2, <1>3, <1>4, <1>5, <1>6 DEF Good
<1> QED
  BY <1>7 DEF path

\* One node more: a slash that hdsTrace counts, and turns into a dot.
LEMMA GoodStep ==
    ASSUME NEW top, NEW path \in Seq(Node), path # <<>>, Good(top, path),
           NEW node \in Node, node.slice = <<>>
    PROVE  /\ Good(top, Append(path, node))
           /\ AfterLast(Whole(top, Append(path, node)), "/") = node.name \o CellSub(node)
<1> DEFINE u == node.name \o CellSub(node)
           w == Whole(top, path)
           t == w \o (<<"/">> \o u)
           more == Append(path, node)
           n == Len(path)
<1>1. n \in Nat \ {0} /\ more \in Seq(Node) /\ Len(more) = n + 1
  OBVIOUS
<1>2. u \in Text /\ Unslashed(u)
  BY CellSubOk
<1>3. w \in Text /\ Whole(top, more) = t
  BY WholeGrown
<1>4. Written(more) = Written(path) \o (<<".">> \o u)
  <2>1. Written(more) = Written(path) \o Piece(n + 1, node)
    BY WrittenGrown
  <2>2. Piece(n + 1, node) = <<".">> \o u
    <3>1. n + 1 # 1
      BY <1>1
    <3> QED
      BY <3>1, PieceOk DEF Piece
  <2> QED
    BY <2>1, <2>2
<1> HIDE DEF u, w, more
<1>5. /\ t \in Text /\ Spots(t, "/") = Spots(w, "/") \cup {Len(w) + 1}
      /\ Spots(w, "/") \subseteq 1..Len(w)
      /\ Dotted(t) = Dotted(w) \o (<<".">> \o u) /\ AfterLast(t, "/") = u
  BY <1>2, <1>3, SlashAdded
<1> HIDE DEF t
<1>6. Len(w) + 1 \notin Spots(w, "/")
  <2>1. Len(w) \in Nat
    BY <1>3 DEF Text
  <2>2. Len(w) + 1 \notin 1..Len(w)
    BY <2>1
  <2> QED
    BY <1>5, <2>2
<1>7. IsFiniteSet(Spots(w, "/")) /\ Cardinality(Spots(w, "/")) = n - 1 /\ Dotted(w) = Written(path)
  BY DEF Good, w
<1>8. IsFiniteSet(Spots(t, "/")) /\ Cardinality(Spots(t, "/")) = (n - 1) + 1
  <2> DEFINE S == Spots(w, "/")
             x == Len(w) + 1
  <2>1. IsFiniteSet(S) /\ Cardinality(S) = n - 1 /\ x \notin S /\ Spots(t, "/") = S \cup {x}
    BY <1>5, <1>6, <1>7
  <2> HIDE DEF S, x
  <2>2. IsFiniteSet(S \cup {x}) /\ Cardinality(S \cup {x}) = IF x \in S THEN Cardinality(S) ELSE Cardinality(S) + 1
    BY <2>1, FS_AddElement
  <2> QED
    BY <2>1, <2>2
<1>9. (n - 1) + 1 = (n + 1) - 1
  BY <1>1
<1>10. Good(top, more)
  BY <1>1, <1>3, <1>4, <1>5, <1>7, <1>8, <1>9 DEF Good
<1> QED
  BY <1>3, <1>5, <1>10 DEF more, u

\* So HdsTrace finds the path and its levels, whatever the path.
LEMMA GoodPath ==
    ASSUME NEW top, top.isstruct, NEW path \in Seq(Node), path # <<>>, path[1].name = TopText,
           \A i \in 1..Len(path) : path[i].slice = <<>>
    PROVE  Good(top, path)
<1> DEFINE n == Len(path)
           first(k) == SubSeq(path, 1, k)
           Upto == {k \in 0..n : k # 0 => Good(top, first(k))}
<1>1. n \in Nat \ {0} /\ (\A i \in 1..n : path[i] \in Node) /\ first(n) = path
  OBVIOUS
<1>2. \A k \in 0..n : first(k) \in Seq(Node) /\ Len(first(k)) = k
  OBVIOUS
<1>3. \A k \in 1..n : first(k) = Append(first(k - 1), path[k])
  OBVIOUS
<1>4. first(0) = <<>>
  OBVIOUS
<1> HIDE DEF first, n
<1>5. 0 \in Upto
  BY <1>1
<1>6. ASSUME NEW k \in 1..n, k - 1 \in Upto PROVE k \in Upto
  <2>1. k \in 0..n /\ k - 1 \in 0..n /\ path[k] \in Node /\ path[k].slice = <<>>
    BY <1>1 DEF n
  <2>2. CASE k = 1
    <3>1. first(k) = Append(<<>>, path[k]) /\ path[k].name = TopText
      <4>1. k - 1 = 0 /\ path[k] = path[1]
        BY <2>2
      <4>2. first(k - 1) = <<>>
        BY <1>4, <4>1
      <4>3. first(k) = Append(first(k - 1), path[k])
        BY <1>3
      <4> QED
        BY <4>1, <4>2, <4>3
    <3>2. Good(top, first(k))
      BY <2>1, <3>1, GoodStart
    <3> QED
      BY <2>1, <3>2
  <2>3. CASE k # 1
    <3>1. k - 1 # 0 /\ first(k - 1) \in Seq(Node) /\ first(k - 1) # <<>>
      BY <1>2, <2>1, <2>3
    <3>2. Good(top, first(k - 1))
      BY <1>6, <3>1
    <3>3. Good(top, Append(first(k - 1), path[k]))
      BY <2>1, <3>1, <3>2, GoodStep
    <3> QED
      BY <1>3, <2>1, <3>3
  <2> QED
    BY <2>2, <2>3
<1>7. n \in Upto
  <2> HIDE DEF Upto
  <2>1. \A k \in 0..n : k \in Upto
    BY <1>1, <1>5, <1>6, UpTo
  <2> QED
    BY <1>1, <2>1
<1> QED
  BY <1>1, <1>7

\* What datName tells of the last node.
Shown(front, node) ==
    IF front = <<>> /\ node.cell # <<>> THEN CellSub(node) ELSE node.name \o CellSub(node)

\* The root group's name stays.
LEMMA RootShown == FixNameCell(<<"/">>) = <<"/">> /\ <<"/">> \in Text /\ Len(<<"/">>) = 1
<1> DEFINE slash == "/"
           t == <<slash>>
           m == Mask(t)
<1>1. slash \in Char1
  BY DEF Char1
<1> HIDE DEF slash
<1>2. t \in Text /\ t \in Seq(Char1) /\ Len(t) = 1 /\ DOMAIN t = 1..1 /\ SubSeq(t, 0 + 1, Len(t)) = t
  <2>1. t \in Seq(Char1) /\ Len(t) = 1
    BY <1>1, OneOrTwo
  <2> HIDE DEF t
  <2>2. SubSeq(t, 1, Len(t)) = t /\ 0 + 1 = 1
    BY <2>1
  <2> QED
    BY <2>1, <2>2 DEF Text
<1> HIDE DEF t
<1>3. CellRoots(t) = {}
  <2>1. CellRoots(t) \subseteq 1..(Len(t) - 2)
    BY <1>2, RootsOk
  <2> QED
    BY <1>2, <2>1
<1>4. m = [i \in 1..Len(t) |-> IF i <= 0 THEN <<>> ELSE <<t[i]>>]
  BY <1>2, <1>3 DEF Mask
<1> HIDE DEF m
<1>5. 0 \in 0..Len(t)
  BY <1>2
<1>6. FlattenSeq(m) = SubSeq(t, 0 + 1, Len(t))
  BY <1>2, <1>4, <1>5, FlatRest
<1>7. FixNameCell(t) = FlattenSeq(m)
  BY DEF FixNameCell, Mask, m
<1> QED
  BY <1>2, <1>6, <1>7 DEF t, slash

\* What FixNameCell leaves of the name of the object where the locator is.
LEMMA CleanTold ==
    ASSUME place \in Place, NEW front \in Seq(Node), NEW node \in Node, Ends(place, front, node)
    PROVE  /\ place.links = <<>> =>
                 FixNameCell(FullName) = <<"/">> /\ place.top.isstruct /\ front = <<>> /\ node.cell = <<>>
           /\ place.links # <<>> =>
                 /\ FixNameCell(FullName) = Clean(place.links)
                 /\ Clean(place.links) \in Text /\ Len(Clean(place.links)) > 1
                 /\ AfterLast(Clean(place.links), "/") = Shown(front, node)
           /\ ~place.top.isstruct => place.links # <<>> /\ Tail(Clean(place.links)) = TopText
<1> DEFINE top == place.top
           links == PathLinks(top, front)
           c == Clean(links)
           s == CellSub(node)
           u == node.name \o s
           clean == Clean(place.links)
<1>1. links \in Seq(Link) /\ (front = <<>> => links = <<>>)
  BY PathGrown
<1>2. place.links = links \o LinksAt(top, Len(front) + 1, node)
  BY DEF Ends
<1>3. Len(front) + 1 = 1 <=> front = <<>>
  OBVIOUS
<1>4. c \in Text /\ clean = c \o (IF front = <<>> /\ top.isstruct THEN s ELSE <<"/">> \o u)
  <2> HIDE DEF links
  <2>1. /\ Clean(links) \in Text
        /\ Clean(links \o LinksAt(top, Len(front) + 1, node)) =
              Clean(links) \o (IF Len(front) + 1 = 1 /\ top.isstruct THEN s ELSE <<"/">> \o u)
    BY <1>1, NodeCleaned
  <2> QED
    BY <1>2, <1>3, <2>1
<1>5. /\ s \in Text /\ Unslashed(s) /\ (node.cell # <<>> => Len(s) >= 2) /\ (node.cell = <<>> => s = <<>>)
      /\ node.name \in Text /\ Len(node.name) >= 1 /\ u \in Text /\ Unslashed(u) /\ Len(u) >= 1
  <2>1. /\ s \in Text /\ Unslashed(s) /\ (node.cell # <<>> => Len(s) >= 2)
        /\ node.name \in Text /\ Len(node.name) >= 1 /\ u \in Text /\ Unslashed(u)
    BY CellSubOk
  <2>2. node.cell = <<>> => s = <<>>
    BY DEF CellSub
  <2>3. Len(u) >= 1
    <3> DEFINE name == node.name
    <3>1. name \in Seq(Char1) /\ s \in Seq(Char1) /\ Len(name) >= 1 /\ u = name \o s
      BY <2>1 DEF Text
    <3> HIDE DEF name, s, u
    <3>2. Len(name \o s) = Len(name) + Len(s)
      BY <3>1
    <3> QED
      BY <3>1, <3>2
  <2> QED
    BY <2>1, <2>2, <2>3
<1>6. links = <<>> => c = <<>>
  <2>1. TopText \in Link
    BY DEF Link, NameSet
  <2> QED
    BY <1>1, <2>1, CleanAppend
<1>7. top.isstruct \in BOOLEAN /\ (~top.isstruct => front = <<>> /\ node.cell = <<>>)
  BY DEF Ends, Place, Kind
<1>8. front = <<>> => node.name = TopText
  BY DEF Ends
<1>9. ASSUME place.links = <<>> PROVE top.isstruct /\ front = <<>> /\ node.cell = <<>>
  <2> DEFINE a == IF Len(front) + 1 = 1 /\ top.isstruct THEN <<>> ELSE <<node.name>>
             b == IF node.cell = <<>> THEN <<>> ELSE <<Coords2CellName(node.cell)>>
  <2>1. links \o (a \o b) = <<>>
    BY <1>2, <1>9 DEF LinksAt
  <2>2. node.name \in Link /\ (node.cell # <<>> => Coords2CellName(node.cell) \in Link)
    BY DEF Node, Link, CellLink
  <2>3. a \in Seq(Link) /\ b \in Seq(Link)
    <3>1. b = <<>> \/ (node.cell # <<>> /\ b = <<Coords2CellName(node.cell)>>)
      OBVIOUS
    <3> QED
      BY <2>2, <3>1, OneOrTwo
  <2>4. (a = <<>> => Len(front) + 1 = 1 /\ top.isstruct) /\ (b = <<>> => node.cell = <<>>)
    OBVIOUS
  <2> HIDE DEF a, b, links
  <2>5. Len(links \o (a \o b)) = Len(links) + (Len(a) + Len(b))
    BY <1>1, <2>3, JoinOk
  <2>6. Len(a) = 0 /\ Len(b) = 0
    BY <1>1, <2>1, <2>3, <2>5
  <2> QED
    BY <1>3, <2>3, <2>4, <2>6
<1>10. place.links = <<>> => FixNameCell(FullName) = <<"/">>
  BY RootShown DEF FullName
<1>11. place.links # <<>> => FixNameCell(FullName) = clean
  BY DEF FullName, Clean, LinkText
<1> HIDE DEF links, c, s, u, clean, top
<1>12. CASE front = <<>> /\ top.isstruct
  <2>1. clean = s
    <3>1. <<>> \o s = s
      BY <1>5, JoinJoin DEF Text
    <3> QED
      BY <1>1, <1>4, <1>6, <1>12, <3>1
  <2>2. AfterLast(s, "/") = s
    BY <1>5, NoSlash
  <2>3. ASSUME place.links # <<>> PROVE node.cell # <<>>
    <3> SUFFICES ASSUME node.cell = <<>> PROVE FALSE
      OBVIOUS
    <3>1. LinksAt(top, Len(front) + 1, node) = <<>> \o <<>>
      BY <1>3, <1>12 DEF LinksAt
    <3>2. <<>> \o (<<>> \o <<>>) = <<>>
      OBVIOUS
    <3> QED
      BY <1>1, <1>2, <1>12, <2>3, <3>1, <3>2
  <2>4. Shown(front, node) = IF node.cell # <<>> THEN s ELSE u
    BY <1>12 DEF Shown, s, u
  <2>5. Len(s) >= 2 => Len(s) > 1
    BY <1>5 DEF Text
  <2> QED
    BY <1>5, <1>9, <1>10, <1>11, <1>12, <2>1, <2>2, <2>3, <2>4, <2>5 DEF clean, top
<1>13. CASE ~(front = <<>> /\ top.isstruct)
  <2> DEFINE t == c \o (<<"/">> \o u)
  <2>1. clean = t /\ place.links # <<>>
    BY <1>4, <1>9, <1>13
  <2>2. t \in Text /\ Len(t) = Len(c) + 1 + Len(u) /\ AfterLast(t, "/") = u
    BY <1>4, <1>5, SlashAdded
  <2> HIDE DEF t
  <2>3. Len(t) > 1
    BY <1>4, <1>5, <2>2 DEF Text
  <2>4. Shown(front, node) = u
    BY <1>7, <1>13 DEF Shown, s, u
  <2>5. ASSUME ~top.isstruct PROVE Tail(clean) = TopText
    <3>1. front = <<>> /\ s = <<>> /\ c = <<>> /\ node.name = TopText
      BY <1>1, <1>5, <1>6, <1>7, <1>8, <2>5
    <3>2. u = TopText
      <4> DEFINE name == node.name
      <4>1. name \o <<>> = name
        BY <1>5, JoinJoin DEF Text
      <4> HIDE DEF name
      <4>2. u = name \o s
        BY DEF u, name
      <4> QED
        BY <3>1, <4>1, <4>2 DEF name
    <3>3. t = <<"/">> \o u
      <4> DEFINE v == <<"/">> \o u
      <4>1. v \in Seq(Char1)
        <5>1. "/" \in Char1
          BY DEF Char1
        <5>2. <<"/">> \in Seq(Char1)
          BY <5>1, OneOrTwo
        <5> QED
          BY <1>5, <5>2, JoinOk DEF Text
      <4>2. t = c \o v
        BY DEF t
      <4> HIDE DEF v
      <4>3. <<>> \o v = v
        BY <4>1, JoinJoin
      <4> QED
        BY <3>1, <4>2, <4>3 DEF v
    <3>4. Tail(<<"/">> \o u) = u
      <4> DEFINE slash == "/"
      <4>1. slash \in Char1 /\ u \in Seq(Char1)
        BY <1>5 DEF Char1, Text
      <4> HIDE DEF slash
      <4>2. Tail(<<slash>> \o u) = u
        BY <4>1
      <4> QED
        BY <4>2 DEF slash
    <3> QED
      BY <2>1, <3>2, <3>3, <3>4
  <2> QED
    BY <1>11, <2>1, <2>2, <2>3, <2>4, <2>5 DEF clean, top
<1> QED
  BY <1>12, <1>13

\* The path as HDS writes it is the object's, and the subscript of its slice.
Sub(bounds) == IF bounds = <<>> THEN <<>> ELSE EncodeSubscript(bounds)

\* The subscript of a slice is at the end.
LEMMA WrittenAtEnd ==
    ASSUME NEW front \in Seq(Node), NEW node \in Node, NEW bare \in Node,
           bare.name = node.name, bare.cell = node.cell, bare.slice = <<>>,
           node.cell = <<>> \/ node.slice = <<>>
    PROVE  /\ Written(Append(front, bare)) \in Text /\ Sub(node.slice) \in Text
           /\ Written(Append(front, node)) = Written(Append(front, bare)) \o Sub(node.slice)
           /\ front = <<>> => Written(Append(front, bare)) = node.name \o CellSub(node)
<1> DEFINE i == Len(front) + 1
           w == Written(front)
           dot == IF i = 1 THEN <<>> ELSE <<".">>
           name == node.name
           s == Subscript(node)
           sb == Subscript(bare)
           z == Sub(node.slice)
<1>1. Written(Append(front, node)) = w \o Piece(i, node) /\ Written(Append(front, bare)) = w \o Piece(i, bare)
      /\ w \in Text /\ Written(<<>>) = <<>>
  BY WrittenGrown
<1>2. s \in Text /\ sb \in Text /\ sb = CellSub(node)
  <2>1. CellSub(bare) = CellSub(node)
    BY DEF CellSub
  <2> QED
    BY <2>1, PieceOk
<1>3. s = sb \o z /\ z \in Text
  <2>1. CASE node.slice = <<>>
    <3>1. s = sb /\ z = <<>>
      BY <1>2, <2>1, PieceOk DEF Sub
    <3> HIDE DEF sb, s, z
    <3>2. sb \o <<>> = sb
      BY <1>2, JoinJoin DEF Text
    <3> QED
      BY <3>1, <3>2 DEF Text
  <2>2. CASE node.slice # <<>>
    <3>1. node.cell = <<>> /\ s = z
      BY <2>2, PieceOk DEF Sub
    <3>2. sb = <<>>
      BY <1>2, <3>1, PieceOk
    <3> HIDE DEF sb, s, z
    <3>3. <<>> \o s = s
      BY <1>2, JoinJoin DEF Text
    <3> QED
      BY <1>2, <3>1, <3>2, <3>3
  <2> QED
    BY <2>1, <2>2
<1>4. name \in Text /\ dot \in Text
  <2>1. "." \in Char1
    BY DEF Char1
  <2> QED
    BY <2>1, CellSubOk, OneOrTwo DEF Text
<1>5. Piece(i, node) = dot \o (name \o s) /\ Piece(i, bare) = dot \o (name \o sb)
  BY DEF Piece
<1>6. front = <<>> => i = 1
  OBVIOUS
<1> HIDE DEF w, name, s, sb, z, i
<1>7. front = <<>> => dot = <<>>
  BY <1>6
<1> HIDE DEF dot
<1>8. name \o sb \in Text /\ (name \o sb) \o z = name \o (sb \o z)
  <2>1. name \in Seq(Char1) /\ sb \in Seq(Char1) /\ z \in Seq(Char1)
    BY <1>2, <1>3, <1>4 DEF Text
  <2>2. name \o sb \in Seq(Char1)
    BY <2>1, JoinOk
  <2>3. (name \o sb) \o z = name \o (sb \o z)
    BY <2>1, JoinJoin
  <2> QED
    BY <2>2, <2>3 DEF Text
<1>9. dot \o (name \o sb) \in Text /\ (dot \o (name \o sb)) \o z = dot \o ((name \o sb) \o z)
  <2> DEFINE v == name \o sb
  <2>1. v \in Seq(Char1) /\ dot \in Seq(Char1) /\ z \in Seq(Char1)
    BY <1>3, <1>4, <1>8 DEF Text
  <2> HIDE DEF v
  <2>2. dot \o v \in Seq(Char1) /\ (dot \o v) \o z = dot \o (v \o z)
    BY <2>1, JoinOk, JoinJoin
  <2> QED
    BY <2>2 DEF v, Text
<1>10. w \o (dot \o (name \o sb)) \in Text
       /\ (w \o (dot \o (name \o sb))) \o z = w \o ((dot \o (name \o sb)) \o z)
  <2> DEFINE v == dot \o (name \o sb)
  <2>1. v \in Seq(Char1) /\ w \in Seq(Char1) /\ z \in Seq(Char1)
    BY <1>1, <1>3, <1>9 DEF Text, w
  <2> HIDE DEF v
  <2>2. w \o v \in Seq(Char1) /\ (w \o v) \o z = w \o (v \o z)
    BY <2>1, JoinOk, JoinJoin
  <2> QED
    BY <2>2 DEF v, Text
<1>11. Written(Append(front, node)) = Written(Append(front, bare)) \o z
  BY <1>1, <1>3, <1>5, <1>8, <1>9, <1>10
<1>12. ASSUME front = <<>> PROVE Written(Append(front, bare)) = name \o CellSub(node)
  <2>1. w = <<>> /\ dot = <<>>
    BY <1>1, <1>7, <1>12 DEF w
  <2> DEFINE v == name \o sb
  <2>2. v \in Seq(Char1)
    BY <1>8 DEF Text
  <2>3. Written(Append(front, bare)) = w \o (dot \o v)
    BY <1>1, <1>5
  <2> HIDE DEF v
  <2>4. <<>> \o v = v
    BY <2>2, JoinJoin
  <2>5. w \o (dot \o v) = v
    BY <2>1, <2>4
  <2> QED
    BY <1>2, <2>3, <2>5 DEF v
<1> QED
  BY <1>1, <1>3, <1>5, <1>10, <1>11, <1>12 DEF z, name

\* What hdsTrace finds.
LEMMA PathTold ==
    ASSUME place \in Place, NEW front \in Seq(Node), NEW node \in Node, Ends(place, front, node)
    PROVE  HdsTrace = [nlev |-> Len(front) + 1, path |-> Written(Append(front, node))]
<1> DEFINE top == place.top
           n == Len(front)
           bare == [node EXCEPT !.slice = <<>>]
           full == Append(front, bare)
           clean == FixNameCell(FullName)
           whole == IF ~NeedsRootName THEN Tail(clean)
                    ELSE IF Len(clean) > 1 THEN TopText \o clean ELSE TopText
           z == Sub(place.bounds)
<1>1. bare \in Node /\ bare.name = node.name /\ bare.cell = node.cell /\ bare.slice = <<>>
  BY DEF Node
<1> HIDE DEF bare
<1>2. /\ Written(full) \in Text /\ z \in Text
      /\ Written(Append(front, node)) = Written(full) \o z
      /\ front = <<>> => Written(full) = node.name \o CellSub(node)
  <2>1. node.slice = place.bounds /\ (node.cell = <<>> \/ node.slice = <<>>)
    BY DEF Ends
  <2> QED
    BY <1>1, <2>1, WrittenAtEnd
<1>3. full \in Seq(Node) /\ full # <<>> /\ Len(full) = n + 1 /\ n \in Nat
  <2>1. n \in Nat
    OBVIOUS
  <2> QED
    BY <1>1, <2>1, LastNode
<1>4. top.isstruct \in BOOLEAN /\ (~top.isstruct => front = <<>> /\ node.cell = <<>>)
  BY DEF Ends, Place, Kind
<1>5. TopText \in Text /\ Unslashed(TopText)
  <2>1. TopText \in NameSet
    BY DEF NameSet
  <2>2. TopText \in Seq(NameChar) /\ TopText \in Text
    BY <2>1, NamesOk, NameShown
  <2> QED
    BY <2>2, NamesOk DEF Unslashed
<1>6. /\ IsFiniteSet(Spots(whole, "/")) /\ Cardinality(Spots(whole, "/")) = n
      /\ Dotted(whole) = Written(full)
  <2>1. CASE ~top.isstruct
    <3>1. whole = TopText
      BY <2>1, CleanTold DEF NeedsRootName
    <3>2. Spots(TopText, "/") = {} /\ Dotted(TopText) = TopText
      BY <1>5, NoSlash
    <3>3. front = <<>> /\ node.cell = <<>> /\ node.name = TopText
      BY <1>4, <2>1 DEF Ends
    <3>4. CellSub(node) = <<>> /\ TopText \o <<>> = TopText
      BY <1>5, <3>3, JoinJoin DEF Text, CellSub
    <3>5. Written(full) = TopText
      BY <1>2, <3>3, <3>4
    <3>6. n = 0
      BY <3>3
    <3> HIDE DEF whole, full, n
    <3> QED
      BY <3>1, <3>2, <3>5, <3>6, FS_EmptySet
  <2>2. CASE top.isstruct
    <3>1. full[1].name = TopText
      <4>1. CASE front = <<>>
        <5>1. full[1] = bare
          BY <1>1, <4>1
        <5> QED
          BY <1>1, <4>1, <5>1 DEF Ends
      <4>2. CASE front # <<>>
        <5>1. full[1] = front[1]
          BY <1>1, <4>2
        <5> QED
          BY <4>2, <5>1 DEF Ends
      <4> QED
        BY <4>1, <4>2
    <3>2. \A i \in 1..Len(full) : full[i].slice = <<>>
      <4>1. \A i \in 1..(n + 1) : (i = n + 1 /\ full[i] = bare) \/ (i \in 1..n /\ full[i] = front[i])
        BY <1>1
      <4>2. \A i \in 1..n : front[i].slice = <<>>
        BY DEF Ends
      <4> HIDE DEF full, n
      <4> QED
        BY <1>1, <1>3, <4>1, <4>2
    <3> HIDE DEF top
    <3>3. Good(top, full)
      <4> HIDE DEF full
      <4> QED
        BY <1>3, <2>2, <3>1, <3>2, GoodPath
    <3>4. whole = Whole(top, full)
      <4>1. PathLinks(top, full) = place.links
        <5>1. LinksAt(top, n + 1, bare) = LinksAt(top, n + 1, node)
          BY <1>1 DEF LinksAt
        <5>2. PathLinks(top, full) = PathLinks(top, front) \o LinksAt(top, n + 1, bare)
          BY <1>1, PathGrown
        <5> QED
          BY <5>1, <5>2 DEF Ends, top
      <4>2. NeedsRootName
        BY <2>2 DEF NeedsRootName, top
      <4>3. Whole(top, full) = TopText \o Clean(place.links)
        BY <4>1 DEF Whole
      <4>4. CASE place.links = <<>>
        <5>1. clean = <<"/">> /\ Len(<<"/">>) = 1
          BY <4>4, CleanTold, RootShown
        <5>2. Clean(place.links) = <<>>
          <6>1. TopText \in Link /\ place.links \in Seq(Link)
            BY DEF Link, NameSet, Place
          <6> QED
            BY <4>4, <6>1, CleanAppend
        <5>3. TopText \o <<>> = TopText
          BY <1>5, JoinJoin DEF Text
        <5>4. Len(clean) = 1
          BY <5>1
        <5>5. ~(Len(clean) > 1)
          <6> HIDE DEF clean
          <6> QED
            BY <5>4
        <5>6. whole = TopText
          BY <4>2, <5>5
        <5> QED
          BY <4>3, <5>2, <5>3, <5>6
      <4>5. CASE place.links # <<>>
        <5>1. clean = Clean(place.links) /\ Len(clean) > 1
          BY <4>5, CleanTold
        <5> HIDE DEF clean
        <5> QED
          BY <4>2, <4>3, <5>1
      <4> QED
        BY <4>4, <4>5
    <3>5. (n + 1) - 1 = n
      BY <1>3
    <3> HIDE DEF whole, full, n
    <3> QED
      BY <1>3, <3>3, <3>4, <3>5 DEF Good
  <2> QED
    BY <1>4, <2>1, <2>2
<1>7. HdsTrace = [nlev |-> 1 + Cardinality(Spots(whole, "/")),
                  path |-> IF place.bounds = <<>> THEN Dotted(whole)
                           ELSE Dotted(whole) \o EncodeSubscript(place.bounds)]
  BY DEF HdsTrace, Dotted
<1> HIDE DEF whole, full, clean
<1>8. Written(full) \o z = IF place.bounds = <<>> THEN Written(full)
                           ELSE Written(full) \o EncodeSubscript(place.bounds)
  <2>1. Written(full) \o <<>> = Written(full)
    BY <1>2, JoinJoin DEF Text
  <2> QED
    BY <2>1 DEF Sub
<1>9. 1 + n = n + 1
  BY <1>3
<1> QED
  BY <1>2, <1>6, <1>7, <1>8, <1>9

\* What datName finds.
LEMMA NameTold ==
    ASSUME place \in Place, NEW front \in Seq(Node), NEW node \in Node, Ends(place, front, node)
    PROVE  DatName = IF Len(Shown(front, node)) > NameSize
                     THEN [status |-> "TRUNC", name |-> SubSeq(Shown(front, node), 1, NameSize)]
                     ELSE [status |-> "OK", name |-> Shown(front, node)]
<1> DEFINE clean == FixNameCell(FullName)
           name == IF Len(clean) > 1 THEN From(clean, LastSpot(clean, "/") + 1)
                   ELSE IF NeedsRootName THEN TopText ELSE <<"<<ERROR>>">>
<1>1. name = Shown(front, node)
  <2>1. CASE place.links = <<>>
    <3>1. clean = <<"/">> /\ Len(<<"/">>) = 1 /\ place.top.isstruct /\ front = <<>> /\ node.cell = <<>>
      BY <2>1, CleanTold, RootShown
    <3>2. Len(clean) = 1
      BY <3>1
    <3> HIDE DEF clean
    <3>3. name = TopText
      BY <3>1, <3>2 DEF NeedsRootName
    <3>4. node.name = TopText /\ TopText \in NameSet
      BY <3>1 DEF Ends, NameSet
    <3>5. TopText \o <<>> = TopText
      BY <3>4, NameShown, JoinJoin DEF Text
    <3>6. Shown(front, node) = TopText \o <<>>
      BY <3>1, <3>4 DEF Shown, CellSub
    <3> QED
      BY <3>3, <3>5, <3>6
  <2>2. CASE place.links # <<>>
    <3>1. /\ clean = Clean(place.links) /\ Len(Clean(place.links)) > 1
          /\ AfterLast(Clean(place.links), "/") = Shown(front, node)
      BY <2>2, CleanTold
    <3>2. From(clean, LastSpot(clean, "/") + 1) = AfterLast(clean, "/")
      BY DEF AfterLast
    <3> HIDE DEF clean
    <3> QED
      BY <3>1, <3>2
  <2> QED
    BY <2>1, <2>2
<1>2. DatName = IF Len(name) > NameSize THEN [status |-> "TRUNC", name |-> SubSeq(name, 1, NameSize)]
                ELSE [status |-> "OK", name |-> name]
  BY DEF DatName
<1> HIDE DEF name
<1> QED
  BY <1>1, <1>2

\* hdsTrace and datName tell the path that the program went along and the last
\* name on it, though HDF5 has neither the name of a top-level structure nor
\* subscripts: whatever the names, shapes and depth.
THEOREM NamesAreRight == NamesSpec => []NamesRight
<1>1. ASSUME NamesInv PROVE NamesRight
  <2> SUFFICES ASSUME hdspath # <<>>
               PROVE  LET last == Last(hdspath)
                          name == (IF Len(hdspath) = 1 /\ last.cell # <<>> THEN <<>> ELSE last.name)
                                  \o (IF last.cell # <<>> THEN Subscript(last) ELSE <<>>)
                      IN /\ HdsTrace = [nlev |-> Len(hdspath), path |-> Written(hdspath)]
                         /\ DatName = IF Len(name) > NameSize
                                      THEN [status |-> "TRUNC", name |-> SubSeq(name, 1, NameSize)]
                                      ELSE [status |-> "OK", name |-> name]
    BY DEF NamesRight
  <2>1. place \in Place
    BY <1>1 DEF NamesInv
  <2>2. PICK front \in Seq(Node), node \in Node : hdspath = Append(front, node) /\ Ends(place, front, node)
    BY <1>1 DEF NamesInv, EndsPath
  <2>3. Last(hdspath) = node /\ Len(hdspath) = Len(front) + 1
    BY <2>2, LastNode
  <2> DEFINE name == (IF Len(hdspath) = 1 /\ node.cell # <<>> THEN <<>> ELSE node.name)
                     \o (IF node.cell # <<>> THEN Subscript(node) ELSE <<>>)
  <2>4. name = Shown(front, node)
    <3>1. Len(hdspath) = 1 <=> front = <<>>
      BY <2>3
    <3>2. node.cell # <<>> => Subscript(node) = CellSub(node)
      BY DEF Subscript, CellSub, Pairs
    <3>3. node.cell = <<>> => CellSub(node) = <<>>
      BY DEF CellSub
    <3>4. <<>> \o CellSub(node) = CellSub(node)
      BY CellSubOk, JoinJoin DEF Text
    <3> QED
      BY <3>1, <3>2, <3>3, <3>4 DEF Shown
  <2>5. HdsTrace = [nlev |-> Len(hdspath), path |-> Written(hdspath)]
    BY <2>1, <2>2, <2>3, PathTold
  <2>6. DatName = IF Len(name) > NameSize THEN [status |-> "TRUNC", name |-> SubSeq(name, 1, NameSize)]
                  ELSE [status |-> "OK", name |-> name]
    <3> HIDE DEF name
    <3> QED
      BY <2>1, <2>2, <2>4, NameTold
  <2> QED
    BY <2>3, <2>5, <2>6
<1> QED
  BY <1>1, NamesInvHolds, PTL

-----------------------------------------------------------------------------
(* Names: references *)

\* The last place of a character.
LEMMA LastSpotOk ==
    ASSUME NEW S, NEW t \in Seq(S), NEW c
    PROVE  /\ LastSpot(t, c) \in 0..Len(t)
           /\ LastSpot(t, c) # 0 => t[LastSpot(t, c)] = c
           /\ \A i \in 1..Len(t) : t[i] = c => i <= LastSpot(t, c)
<1> DEFINE n == Len(t)
           P == Spots(t, c)
           l == Max({0} \cup P)
<1>1. n \in Nat /\ DOMAIN t = 1..n
  OBVIOUS
<1>2. P \in SUBSET (1..n) /\ \A i \in 1..n : i \in P <=> t[i] = c
  BY <1>1 DEF Spots
<1>3. LastSpot(t, c) = l
  BY DEF LastSpot
<1> HIDE DEF n, P
<1>4. CASE P = {}
  <2>1. {0} \cup {} = {0} /\ Max({0}) = 0
    BY DEF Max
  <2>2. l = 0
    BY <1>4, <2>1
  <2>3. 0 \in 0..n
    BY <1>1
  <2> QED
    BY <1>2, <1>3, <1>4, <2>2, <2>3 DEF n
<1>5. CASE P # {}
  <2> DEFINE m == Max(P)
  <2>1. m \in P /\ \A y \in P : m >= y
    BY <1>1, <1>2, <1>5, LastPosition
  <2> HIDE DEF m
  <2>2. m \in 1..n /\ m \in 0..n /\ m # 0
    BY <1>1, <1>2, <2>1
  <2> DEFINE G == {0} \cup P
  <2>3. m \in G /\ \A y \in G : y \in Int /\ m >= y
    BY <1>2, <2>1, <2>2
  <2> HIDE DEF G
  <2>4. Max(G) = m
    <3>1. \A x \in G : (\A y \in G : x >= y) => x = m
      BY <2>2, <2>3
    <3> QED
      BY <2>3, <3>1 DEF Max
  <2>5. l = m
    BY <2>4 DEF G
  <2>6. \A i \in 1..n : t[i] = c => i <= m
    BY <1>2, <2>1, <2>2
  <2> QED
    BY <1>2, <1>3, <2>1, <2>2, <2>5, <2>6 DEF n
<1> QED
  BY <1>4, <1>5

\* What is before and after the second of two texts.
LEMMA JoinParts ==
    ASSUME NEW S, NEW a \in Seq(S), NEW b \in Seq(S)
    PROVE  /\ SubSeq(a \o b, 1, Len(a \o b) - Len(b)) = a
           /\ From(a \o b, Len(a) + 1) = b
<1> DEFINE t == a \o b
           m == Len(a)
           n == Len(b)
<1>1. Joined(t, a, b, S) /\ m \in Nat /\ n \in Nat
  BY JoinedOk
<1> HIDE DEF t
<1>2. t \in Seq(S) /\ Len(t) = m + n /\ (\A i \in 1..m : t[i] = a[i]) /\ \A i \in 1..n : t[m + i] = b[i]
  BY <1>1 DEF Joined
<1>3. SubSeq(t, 1, m) = a
  <2> DEFINE v == SubSeq(t, 1, m)
  <2>1. m \in 0..Len(t)
    BY <1>1, <1>2
  <2>2. v \in Seq(S) /\ Len(v) = m /\ \A i \in 1..m : v[i] = t[i]
    BY <1>2, <2>1
  <2> HIDE DEF v
  <2>3. v = a
    BY SMTT(40), <1>2, <2>2
  <2> QED
    BY <2>3 DEF v
<1>4. SubSeq(t, m + 1, m + n) = b
  <2> DEFINE v == SubSeq(t, m + 1, m + n)
  <2>1. v \in Seq(S) /\ Len(v) = n
    BY <1>1, <1>2
  <2>2. \A i \in 1..n : v[i] = t[m + i]
    BY <1>1, <1>2
  <2> HIDE DEF v
  <2>3. \A i \in 1..n : v[i] = b[i]
    BY <1>2, <2>2
  <2>4. v = b
    BY <2>1, <2>3
  <2> QED
    BY <2>4 DEF v
<1>5. Len(t) - n = m
  BY <1>1, <1>2
<1> QED
  BY <1>2, <1>3, <1>4, <1>5 DEF From, t, m, n

\* A written path is the name on top, and what begins with a subscript or dot.
Rest(path, r) ==
    /\ Written(path) = TopText \o r
    /\ r # <<>> => r[1] = "(" \/ (r[1] = "." /\ Len(path) > 1)
Begins(path) == \E r \in Text : Rest(path, r)

\* A subscript begins with a bracket, if there is one.
LEMMA SubscriptBegins ==
    ASSUME NEW node \in Node
    PROVE  Subscript(node) \in Text /\ (Subscript(node) # <<>> => Subscript(node)[1] = "(")
<1> DEFINE s == Subscript(node)
<1>1. s \in Text
  BY PieceOk
<1>2. ASSUME s # <<>> PROVE s[1] = "("
  <2>1. s = IF node.cell # <<>> THEN EncodeSubscript(Pairs(node.cell))
            ELSE IF node.slice # <<>> THEN EncodeSubscript(node.slice) ELSE <<>>
    BY DEF Subscript, Pairs
  <2>2. CASE node.cell # <<>>
    <3>1. node.cell \in Coordinates
      BY <2>2 DEF Node
    <3>2. Pairs(node.cell) \in Bounds
      BY <3>1, PairsOk
    <3>3. s = EncodeSubscript(Pairs(node.cell))
      BY <2>1, <2>2
    <3> HIDE DEF s
    <3> QED
      BY <3>2, <3>3, EncodeOk
  <2>3. CASE node.cell = <<>>
    <3>1. node.slice \in Bounds /\ s = EncodeSubscript(node.slice)
      BY <1>2, <2>1, <2>3 DEF Node
    <3> HIDE DEF s
    <3> QED
      BY <3>1, EncodeOk
  <2> QED
    BY <2>2, <2>3
<1> QED
  BY <1>1, <1>2

\* One node.
LEMMA BeginsStart ==
    ASSUME NEW node \in Node, node.name = TopText
    PROVE  Begins(Append(<<>>, node))
<1> DEFINE none == <<>>
           s == Subscript(node)
           path == Append(none, node)
<1>1. none \in Seq(Node) /\ Len(none) + 1 = 1
  OBVIOUS
<1>2. s \in Text /\ (s # <<>> => s[1] = "(")
  BY SubscriptBegins
<1>3. node.name \in Text
  BY CellSubOk
<1>4. Written(path) = Written(none) \o Piece(1, node) /\ Written(none) = <<>>
  <2>1. Written(path) = Written(none) \o Piece(Len(none) + 1, node) /\ Written(<<>>) = <<>>
    <3> HIDE DEF none
    <3> QED
      BY <1>1, WrittenGrown
  <2> QED
    BY <1>1, <2>1
<1>5. Piece(1, node) = <<>> \o (node.name \o s)
  BY DEF Piece
<1> HIDE DEF s, path, none
<1>6. Written(path) = TopText \o s
  <2> DEFINE v == TopText \o s
  <2>1. v \in Seq(Char1)
    BY <1>2, <1>3, JoinOk DEF Text
  <2>2. Written(path) = Written(none) \o Piece(1, node) /\ Piece(1, node) = <<>> \o v
    BY <1>4, <1>5
  <2> HIDE DEF v
  <2>3. <<>> \o v = v
    BY <2>1, JoinJoin
  <2> QED
    BY <1>4, <2>2, <2>3 DEF v
<1>7. Rest(path, s)
  BY <1>2, <1>6 DEF Rest
<1> QED
  BY <1>2, <1>7 DEF Begins, path, none

\* One node more.
LEMMA BeginsStep ==
    ASSUME NEW path \in Seq(Node), path # <<>>, Begins(path), NEW node \in Node
    PROVE  Begins(Append(path, node))
<1> DEFINE more == Append(path, node)
           n == Len(path)
           u == node.name \o Subscript(node)
           dot == "."
           x == <<dot>> \o u
<1>1. PICK r \in Text : Rest(path, r)
  BY DEF Begins
<1>2. n \in Nat \ {0} /\ Len(more) = n + 1
  BY LastNode
<1>3. Piece(n + 1, node) = x /\ Written(more) = Written(path) \o Piece(n + 1, node)
  <2>1. n + 1 # 1
    BY <1>2
  <2> QED
    BY <2>1, WrittenGrown DEF Piece
<1>4. u \in Text
  <2>1. node.name \in Text /\ Subscript(node) \in Text
    BY CellSubOk, SubscriptBegins
  <2> QED
    BY <2>1, JoinOk DEF Text
<1>5. TopText \in Text
  <2>1. TopText \in NameSet
    BY DEF NameSet
  <2> QED
    BY <2>1, NameShown
<1>6. dot \in Char1
  BY DEF Char1
<1> HIDE DEF u, dot, more, n
<1>7. x \in Text /\ x[1] = dot /\ Len(x) >= 1
  BY <1>4, <1>6 DEF Text
<1> HIDE DEF x
<1> DEFINE rx == r \o x
<1>8. rx \in Text /\ (r = <<>> => rx[1] = dot) /\ (r # <<>> => rx[1] = r[1])
  <2>1. Joined(rx, r, x, Char1) /\ Len(r) \in Nat
    BY <1>7, JoinedOk DEF Text
  <2> HIDE DEF rx
  <2>2. 1 \in 1..Len(x) /\ (r # <<>> => 1 \in 1..Len(r)) /\ (r = <<>> => Len(r) + 1 = 1)
    BY <1>7 DEF Text
  <2>3. r # <<>> => rx[1] = r[1]
    BY <2>1, <2>2 DEF Joined
  <2>4. r = <<>> => rx[1] = x[1]
    <3>1. rx[Len(r) + 1] = x[1]
      BY <2>1, <2>2 DEF Joined
    <3> QED
      BY <2>2, <3>1
  <2> QED
    BY <1>7, <2>1, <2>3, <2>4 DEF Joined, Text
<1>9. Written(more) = TopText \o rx
  <2>1. (TopText \o r) \o x = TopText \o (r \o x)
    BY <1>5, <1>7, JoinJoin DEF Text
  <2> QED
    BY <1>1, <1>3, <2>1 DEF Rest
<1>10. n + 1 > 1
  BY <1>2
<1> HIDE DEF rx
<1>11. Rest(more, rx)
  BY <1>1, <1>2, <1>8, <1>9, <1>10 DEF Rest, dot
<1> QED
  BY <1>8, <1>11 DEF Begins, more

\* Every path.
LEMMA BeginsPath ==
    ASSUME NEW path \in Seq(Node), path # <<>>, path[1].name = TopText
    PROVE  Begins(path)
<1> DEFINE n == Len(path)
           first(k) == SubSeq(path, 1, k)
           Upto == {k \in 0..n : k # 0 => Begins(first(k))}
<1>1. n \in Nat \ {0} /\ (\A i \in 1..n : path[i] \in Node) /\ first(n) = path
  OBVIOUS
<1>2. \A k \in 0..n : first(k) \in Seq(Node) /\ Len(first(k)) = k
  OBVIOUS
<1>3. \A k \in 1..n : first(k) = Append(first(k - 1), path[k])
  OBVIOUS
<1>4. first(0) = <<>>
  OBVIOUS
<1> HIDE DEF first, n
<1>5. 0 \in Upto
  BY <1>1
<1>6. ASSUME NEW k \in 1..n, k - 1 \in Upto PROVE k \in Upto
  <2>1. k \in 0..n /\ k - 1 \in 0..n /\ path[k] \in Node
    BY <1>1
  <2>2. CASE k = 1
    <3>1. first(k) = Append(<<>>, path[k]) /\ path[k].name = TopText
      <4>1. k - 1 = 0 /\ path[k] = path[1]
        BY <2>2
      <4>2. first(k - 1) = <<>>
        BY <1>4, <4>1
      <4>3. first(k) = Append(first(k - 1), path[k])
        BY <1>3
      <4> QED
        BY <4>1, <4>2, <4>3
    <3>2. Begins(first(k))
      BY <2>1, <3>1, BeginsStart
    <3> QED
      BY <2>1, <3>2
  <2>3. CASE k # 1
    <3>1. k - 1 # 0 /\ first(k - 1) \in Seq(Node) /\ first(k - 1) # <<>>
      BY <1>2, <2>1, <2>3
    <3>2. Begins(first(k - 1))
      BY <1>6, <3>1
    <3>3. Begins(Append(first(k - 1), path[k]))
      BY <2>1, <3>1, <3>2, BeginsStep
    <3> QED
      BY <1>3, <2>1, <3>3
  <2> QED
    BY <2>2, <2>3
<1>7. n \in Upto
  <2> HIDE DEF Upto
  <2>1. \A k \in 0..n : k \in Upto
    BY <1>1, <1>5, <1>6, UpTo
  <2> QED
    BY <1>1, <2>1
<1> QED
  BY <1>1, <1>7

\* The path in a reference.
LEMMA PathRefOk ==
    ASSUME place \in Place, NEW front \in Seq(Node), NEW node \in Node, Ends(place, front, node)
    PROVE  LET wr == Written(Append(front, node))
           IN wr \in Text /\ PathRef = From(wr, Len(TopText) + 1) /\ PathRef \in Text
<1> DEFINE path == Append(front, node)
           wr == Written(path)
           n == Len(path)
           m == Len(TopText)
           marks == Spots(wr, "(") \cup (IF n > 1 THEN Spots(wr, ".") ELSE {})
<1>1. path \in Seq(Node) /\ path # <<>> /\ n = Len(front) + 1
  BY LastNode
<1>2. path[1].name = TopText
  <2>1. CASE front = <<>>
    <3>1. path[1] = node
      BY <2>1
    <3> QED
      BY <2>1, <3>1 DEF Ends
  <2>2. CASE front # <<>>
    <3>1. path[1] = front[1]
      BY <2>2
    <3> QED
      BY <2>2, <3>1 DEF Ends
  <2> QED
    BY <2>1, <2>2
<1>3. PathRef = IF marks = {} THEN <<>> ELSE From(wr, Min(marks))
  <2>1. HdsTrace = [nlev |-> n, path |-> wr]
    BY <1>1, PathTold
  <2>2. HdsTrace.nlev = n /\ HdsTrace.path = wr
    BY <2>1
  <2> HIDE DEF wr, n
  <2> QED
    BY <2>2 DEF PathRef
<1> HIDE DEF path
<1>4. PICK r \in Text : Rest(path, r)
  BY <1>1, <1>2, BeginsPath DEF Begins
<1>5. TopText \in Text /\ \A i \in 1..m : TopText[i] # "(" /\ TopText[i] # "."
  <2>1. TopText \in NameSet
    BY DEF NameSet
  <2>2. TopText \in Seq(NameChar) /\ TopText \in Text
    BY <2>1, NamesOk, NameShown
  <2> QED
    BY <2>2, NamesOk
<1>6. wr = TopText \o r
  BY <1>4 DEF Rest
<1>7. Joined(wr, TopText, r, Char1) /\ m \in Nat /\ Len(r) \in Nat
  BY <1>5, <1>6, JoinedOk DEF Text
<1>8. From(wr, m + 1) = r
  BY <1>5, <1>6, JoinParts DEF Text
<1> HIDE DEF wr, m, n
<1>9. wr \in Text /\ Len(wr) = m + Len(r) /\ DOMAIN wr = 1..Len(wr)
      /\ (\A i \in 1..m : wr[i] = TopText[i]) /\ (r # <<>> => wr[m + 1] = r[1])
  <2>1. wr \in Seq(Char1) /\ Len(wr) = m + Len(r) /\ \A i \in 1..m : wr[i] = TopText[i]
    BY <1>7 DEF Joined, m
  <2>2. \A i \in 1..Len(r) : wr[m + i] = r[i]
    BY <1>7 DEF Joined, m
  <2>3. r # <<>> => 1 \in 1..Len(r)
    BY <1>7 DEF Text
  <2> QED
    BY <2>1, <2>2, <2>3 DEF Text
<1>10. \A i \in marks : i \in 1..(m + Len(r)) /\ i \notin 1..m
  <2>1. marks \subseteq Spots(wr, "(") \cup Spots(wr, ".")
    OBVIOUS
  <2> HIDE DEF marks
  <2> QED
    BY <1>5, <1>9, <2>1 DEF Spots
<1>11. CASE r = <<>>
  <2>1. Len(r) = 0
    BY <1>11
  <2>2. marks = {}
    <3> HIDE DEF marks
    <3>1. \A i \in 1..(m + Len(r)) : i \in 1..m
      BY <1>7, <2>1
    <3> QED
      BY <1>10, <3>1
  <2> QED
    BY <1>3, <1>8, <1>9, <1>11, <2>2 DEF wr, path, m
<1>12. CASE r # <<>>
  <2>1. m + 1 \in DOMAIN wr
    <3>1. Len(r) # 0
      BY <1>12 DEF Text
    <3> QED
      BY <1>7, <1>9, <3>1
  <2>2. m + 1 \in marks
    <3>1. r[1] = "(" \/ (r[1] = "." /\ n > 1)
      BY <1>4, <1>12 DEF Rest, n
    <3> QED
      BY <1>9, <1>12, <2>1, <3>1 DEF Spots
  <2> HIDE DEF marks
  <2>3. \A i \in marks : i \in Nat /\ m + 1 <= i
    BY <1>7, <1>10
  <2>4. Min(marks) = m + 1
    <3>1. \A x \in marks : (\A y \in marks : x <= y) => x = m + 1
      BY <1>7, <2>2, <2>3
    <3> QED
      BY <2>2, <2>3, <3>1 DEF Min
  <2> QED
    BY <1>3, <1>8, <1>9, <2>2, <2>4 DEF wr, path, m
<1> QED
  BY <1>11, <1>12

\* A text between two characters.
LEMMA Quoted ==
    ASSUME NEW S, NEW q \in S, NEW w \in Seq(S)
    PROVE  LET t == (<<q>> \o w) \o <<q>>
           IN t \in Seq(S) /\ t[1] = q /\ SubSeq(t, 2, Len(t) - 1) = w
<1> DEFINE a == <<q>> \o w
           t == a \o <<q>>
           n == Len(w)
<1>1. n \in Nat /\ a \in Seq(S) /\ Len(a) = n + 1 /\ a[1] = q /\ \A i \in 1..n : a[i + 1] = w[i]
  OBVIOUS
<1> HIDE DEF a, n
<1>2. /\ t \in Seq(S) /\ Len(t) = n + 2 /\ \A i \in 1..(n + 1) : t[i] = a[i]
  BY <1>1
<1> HIDE DEF t
<1>3. t[1] = q /\ Len(t) - 1 = n + 1
  BY <1>1, <1>2
<1> DEFINE v == SubSeq(t, 2, n + 1)
<1>4. v \in Seq(S) /\ Len(v) = n
  BY <1>1, <1>2
<1>5. \A i \in 1..n : v[i] = t[i + 1]
  BY <1>1, <1>2
<1> HIDE DEF v
<1>6. \A i \in 1..n : v[i] = w[i]
  <2>1. \A i \in 1..n : i + 1 \in 1..(n + 1)
    BY <1>1
  <2> QED
    BY <1>1, <1>2, <1>5, <2>1
<1>7. v = w
  BY <1>4, <1>6 DEF n
<1> QED
  BY <1>2, <1>3, <1>7 DEF t, a, v

\* The dots in the last part of a file name.
OneDot(w) == Cardinality(Spots(AfterLast(w, "/"), ".")) = 1

\* It is in one place.
LEMMA OneDotOk ==
    ASSUME NEW w \in GoodFile, OneDot(w)
    PROVE  LET q == LastSpot(w, "/")
           IN \E k \in (q + 1)..Len(w) : /\ w[k] = "."
                                         /\ \A i \in (q + 1)..Len(w) : w[i] = "." => i = k
<1> DEFINE q == LastSpot(w, "/")
           m == Len(w)
           v == AfterLast(w, "/")
           P == Spots(v, ".")
<1>1. w \in Seq(FileChar) /\ m \in Nat
  <2>1. w \in Seq(FileChar)
    BY DEF GoodFile
  <2> QED
    BY <2>1
<1>2. q \in 0..m /\ q \in Nat
  <2>1. q \in 0..m
    BY <1>1, LastSpotOk
  <2> HIDE DEF q, m
  <2> QED
    BY <1>1, <2>1
<1>3. v = SubSeq(w, q + 1, m)
  BY DEF AfterLast, From
<1>4. Cardinality(P) = 1
  BY DEF OneDot
<1> HIDE DEF v, q, P
<1>5. v \in Seq(FileChar) /\ Len(v) = m - q
  BY <1>1, <1>2, <1>3
<1>6. \A i \in 1..(m - q) : v[i] = w[q + i]
  BY <1>1, <1>2, <1>3
<1>7. m - q \in Nat /\ DOMAIN v = 1..(m - q)
  BY <1>1, <1>2, <1>5
<1> HIDE DEF m
<1>8. P \in SUBSET (1..(m - q)) /\ \A i \in 1..(m - q) : i \in P <=> v[i] = "."
  BY <1>7 DEF Spots, P
<1>9. IsFiniteSet(P)
  <2>1. IsFiniteSet(1..(m - q))
    BY <1>7, FS_Interval
  <2> QED
    BY <1>8, <2>1, FS_Subset
<1>10. PICK j : P = {j}
  BY <1>4, <1>9, FS_Singleton
<1>11. j \in 1..(m - q) /\ v[j] = "." /\ \A i \in 1..(m - q) : v[i] = "." => i = j
  BY <1>8, <1>10
<1> DEFINE k == q + j
<1>12. k \in (q + 1)..m
  <2>1. j \in Nat /\ 1 <= j /\ j <= m - q /\ m \in Nat /\ q \in Nat
    BY <1>1, <1>2, <1>7, <1>11
  <2> QED
    BY <2>1
<1>13. w[k] = "."
  BY <1>6, <1>11
<1>14. ASSUME NEW i \in (q + 1)..m, w[i] = "." PROVE i = k
  <2>1. i - q \in 1..(m - q) /\ q + (i - q) = i
    <3>1. m \in Nat /\ q \in Nat /\ i \in (q + 1)..m
      BY <1>1, <1>2
    <3> QED
      BY <3>1
  <2>2. v[i - q] = "."
    BY <1>6, <1>14, <2>1
  <2>3. i - q = j
    BY <1>11, <2>1, <2>2
  <2> QED
    BY <1>2, <2>1, <2>3
<1> HIDE DEF k
<1> QED
  BY <1>12, <1>13, <1>14 DEF q, m

\* The part of a reference that is a file name, without its quotes.
Bare(f) == IF f[1] = "'" THEN SubSeq(f, 2, Len(f) - 1) ELSE f

\* A file is found again by the name that datRef gives it.
LEMMA FileRefOk ==
    ASSUME NEW w \in GoodFile
    PROVE  /\ FileRef(w) \in Text
           /\ w[1] # "'" /\ Last(Bare(FileRef(w))) # " " /\ OneDot(w)
                 => CheckFileName(Bare(FileRef(w)), FALSE) = w
<1> DEFINE m == Len(w)
           stem == m - 2
           odd == ~(stem >= 1 /\ From(w, stem + 1) = Flext)
           dot == IF LastSpot(w, ".") > LastSpot(w, "/") THEN <<>> ELSE <<".">>
           q == LastSpot(w, "/")
           r == FileRef(w)
<1>1. w \in Seq(FileChar) /\ w # <<>> /\ Firm(w)
  BY DEF GoodFile, Firm
<1>2. w \in Seq(Char1) /\ m \in Nat \ {0} /\ DOMAIN w = 1..m
  <2>1. \A i \in 1..m : w[i] \in Char1
    BY <1>1 DEF Char1
  <2> QED
    BY <1>1, <2>1
<1>3. "'" \in Char1 /\ "." \in Char1
  BY DEF Char1
<1>4. dot \in Seq(Char1)
  BY <1>3, OneOrTwo
<1>5. r = IF odd THEN ((<<"'">> \o w) \o dot) \o <<"'">> ELSE SubSeq(w, 1, stem)
  BY DEF FileRef, Flext
<1>6. q \in 0..m /\ \A i \in 1..m : w[i] = "/" => i <= q
  BY <1>2, LastSpotOk
<1>7. LastSpot(w, ".") \in 0..m /\ \A i \in 1..m : w[i] = "." => i <= LastSpot(w, ".")
  BY <1>2, LastSpotOk
<1>8. ASSUME OneDot(w) PROVE LastSpot(w, ".") > q
  <2>1. PICK k \in (q + 1)..m : w[k] = "."
    BY <1>8, OneDotOk
  <2>2. k \in 1..m /\ k > q
    BY <1>2, <1>6
  <2>3. k <= LastSpot(w, ".")
    BY <1>7, <2>1, <2>2
  <2> HIDE DEF q
  <2> QED
    BY <1>6, <1>7, <2>2, <2>3
<1> DEFINE whole(b) == LET body == Stripped(b)
                       IN IF LastSpot(body, ".") <= LastSpot(body, "/") THEN body \o Flext ELSE body
<1>9. \A b : b # <<>> => CheckFileName(b, FALSE) = whole(b)
  BY DEF CheckFileName
<1>10. CASE odd
  <2> HIDE DEF dot, odd
  <2>1. r \in Text
    <3> DEFINE quote == "'"
    <3>1. <<quote>> \in Seq(Char1)
      BY <1>3, OneOrTwo
    <3> HIDE DEF quote
    <3>2. (<<quote>> \o w) \in Seq(Char1)
      BY <1>2, <3>1, JoinOk
    <3>3. ((<<quote>> \o w) \o dot) \in Seq(Char1)
      BY <1>4, <3>2, JoinOk
    <3> DEFINE x == (<<quote>> \o w) \o dot
    <3> HIDE DEF x
    <3>4. x \o <<quote>> \in Seq(Char1)
      BY <3>1, <3>3, JoinOk DEF x
    <3> QED
      BY <1>5, <1>10, <3>4 DEF Text, x, quote
  <2>2. ASSUME OneDot(w) PROVE CheckFileName(Bare(r), FALSE) = w
    <3>1. dot = <<>>
      BY <1>8, <2>2 DEF dot
    <3>2. Bare(r) = w
      <4> DEFINE quote == "'"
                 x == <<quote>> \o w
      <4>1. quote \in Char1
        BY <1>3
      <4> HIDE DEF quote
      <4>2. x \in Seq(Char1)
        <5>1. <<quote>> \in Seq(Char1)
          BY <4>1, OneOrTwo
        <5> QED
          BY <1>2, <5>1, JoinOk
      <4>3. r = (x \o dot) \o <<quote>>
        BY <1>5, <1>10 DEF quote
      <4>4. (<<quote>> \o w) \o <<quote>> \in Seq(Char1)
            /\ ((<<quote>> \o w) \o <<quote>>)[1] = quote
            /\ SubSeq((<<quote>> \o w) \o <<quote>>, 2, Len((<<quote>> \o w) \o <<quote>>) - 1) = w
        BY <1>2, <4>1, Quoted
      <4> DEFINE t == x \o <<quote>>
      <4>5. t[1] = quote /\ SubSeq(t, 2, Len(t) - 1) = w
        BY <4>4
      <4> HIDE DEF x
      <4>6. x \o <<>> = x
        BY <4>2, JoinJoin
      <4>7. r = t
        BY <3>1, <4>3, <4>6
      <4> HIDE DEF t, r
      <4> QED
        BY <4>5, <4>7 DEF Bare, quote
    <3>3. Stripped(w) = w
      BY <1>1, StrippedOk
    <3>4. whole(w) = w
      <4>1. ~(LastSpot(w, ".") <= q)
        <5>1. LastSpot(w, ".") > q
          BY <1>8, <2>2
        <5> HIDE DEF q
        <5> QED
          BY <1>6, <1>7, <5>1
      <4> QED
        BY <3>3, <4>1
    <3> HIDE DEF whole, r
    <3> QED
      BY <1>1, <1>9, <3>2, <3>4
  <2> HIDE DEF r
  <2> QED
    BY <2>1, <2>2 DEF r
<1>11. CASE ~odd
  <2> DEFINE b == SubSeq(w, 1, stem)
  <2>1. r = b /\ stem >= 1 /\ SubSeq(w, stem + 1, m) = Flext
    BY <1>5, <1>11 DEF From
  <2> HIDE DEF odd, dot
  <2>2. stem \in 1..m /\ stem \in 0..m /\ m = stem + 2 /\ stem \in Nat
    BY <1>2, <2>1
  <2>3. b \in Seq(Char1) /\ Len(b) = stem /\ \A i \in 1..stem : b[i] = w[i]
    <3> HIDE DEF m, stem
    <3> QED
      BY <1>2, <2>2 DEF m
  <2>4. b \o Flext = w
    <3> DEFINE c == SubSeq(w, stem + 1, m)
    <3>1. b \o c = w
      <4> HIDE DEF stem
      <4>1. c \in Seq(Char1) /\ Len(c) = 2
        BY <1>2, <2>2
      <4>2. \A i \in 1..2 : c[i] = w[stem + i]
        BY <1>2, <2>2
      <4> HIDE DEF b, c
      <4> DEFINE x == b \o c
      <4>3. Joined(x, b, c, Char1)
        BY <2>3, <4>1, JoinedOk
      <4> HIDE DEF x, m
      <4>4. x \in Seq(Char1) /\ Len(x) = m /\ (\A i \in 1..stem : x[i] = w[i]) /\ \A i \in 1..2 : x[stem + i] = w[stem + i]
        <5>1. x \in Seq(Char1) /\ Len(x) = stem + 2 /\ (\A i \in 1..stem : x[i] = b[i]) /\ \A i \in 1..2 : x[stem + i] = c[i]
          BY <2>3, <4>1, <4>3 DEF Joined
        <5> QED
          BY <2>2, <2>3, <4>2, <5>1
      <4>5. \A i \in 1..m : i \in 1..stem \/ (i - stem \in 1..2 /\ stem + (i - stem) = i)
        BY <2>2
      <4>6. \A i \in 1..m : x[i] = w[i]
        BY <4>4, <4>5
      <4>7. x = w
        BY <1>2, <4>4, <4>6 DEF m
      <4> QED
        BY <4>7 DEF x
    <3> QED
      BY <2>1, <3>1
  <2>5. w[stem + 1] = "."
    <3> DEFINE c == SubSeq(w, stem + 1, m)
    <3>1. c[1] = w[stem + 1]
      <4> HIDE DEF stem
      <4> QED
        BY <1>2, <2>2
    <3>2. Flext[1] = "."
      BY DEF Flext
    <3> QED
      BY <2>1, <3>1, <3>2
  <2>6. w[m] = "sdf"
    <3> DEFINE c == SubSeq(w, stem + 1, m)
    <3>1. c[2] = w[m]
      <4> HIDE DEF stem
      <4> QED
        BY <1>2, <2>2
    <3>2. Flext[2] = "sdf"
      BY DEF Flext
    <3> QED
      BY <2>1, <3>1, <3>2
  <2>7. ASSUME w[1] # "'", Last(Bare(r)) # " ", OneDot(w) PROVE CheckFileName(Bare(r), FALSE) = w
    <3>1. b[1] = w[1] /\ b # <<>> /\ 1 \in 1..stem
      <4> DEFINE k == stem
      <4>1. k \in Nat /\ k >= 1 /\ b \in Seq(Char1) /\ Len(b) = k /\ \A i \in 1..k : b[i] = w[i]
        BY <2>1, <2>2, <2>3
      <4> HIDE DEF b, k
      <4>2. b[1] = w[1] /\ b # <<>> /\ 1 \in 1..k
        BY <4>1
      <4> QED
        BY <4>2 DEF k
    <3>2. Bare(r) = b
      <4>1. r[1] # "'"
        BY <2>1, <2>7, <3>1
      <4> HIDE DEF r
      <4> QED
        BY <2>1, <4>1 DEF Bare
    <3>3. Firm(b)
      <4>1. Last(b) # " "
        BY <2>7, <3>2
      <4>2. w[1] # " "
        BY <1>1 DEF Firm
      <4> HIDE DEF b
      <4> QED
        BY <3>1, <4>1, <4>2 DEF Firm, Last
    <3> HIDE DEF b
    <3>4. Stripped(b) = b
      BY <2>3, <3>3, StrippedOk
    <3>5. LastSpot(b, ".") <= LastSpot(b, "/")
      <4> DEFINE p == LastSpot(b, "/")
                 d == LastSpot(b, ".")
      <4>1. d \in 0..stem /\ (d # 0 => b[d] = ".")
        BY <2>3, LastSpotOk
      <4>2. p \in 0..stem /\ \A i \in 1..stem : b[i] = "/" => i <= p
        BY <2>3, LastSpotOk
      <4>3. q # 0 => w[q] = "/"
        BY <1>2, LastSpotOk
      <4>4. PICK k \in (q + 1)..m : w[k] = "." /\ \A i \in (q + 1)..m : w[i] = "." => i = k
        BY <2>7, OneDotOk
      <4> HIDE DEF p, d, q
      <4>5. q <= stem
        <5>1. q = 0 \/ (q # stem + 1 /\ q # m)
          BY <2>5, <2>6, <4>3
        <5> HIDE DEF m, stem
        <5> QED
          BY <1>6, <2>2, <5>1
      <4>6. stem + 1 \in (q + 1)..m
        <5> HIDE DEF m, stem
        <5> QED
          BY <1>6, <2>2, <4>5
      <4>7. k = stem + 1
        BY <2>5, <4>4, <4>6
      <4>8. d <= q
        <5> SUFFICES ASSUME ~(d <= q) PROVE FALSE
          OBVIOUS
        <5> HIDE DEF m, stem
        <5>1. d \in (q + 1)..m /\ d \in 1..stem /\ d # 0
          BY <1>6, <2>2, <4>1
        <5>2. w[d] = "."
          BY <2>3, <4>1, <5>1
        <5>3. d = k
          BY <4>4, <5>1, <5>2
        <5> QED
          BY <2>2, <4>7, <5>1, <5>3
      <4>9. q <= p
        <5>1. CASE q = 0
          BY <4>2, <5>1
        <5>2. CASE q # 0
          <6>1. q \in 1..stem
            <7> HIDE DEF m, stem
            <7> QED
              BY <1>6, <2>2, <4>5, <5>2
          <6>2. b[q] = "/"
            BY <2>3, <4>3, <5>2, <6>1
          <6> QED
            BY <4>2, <6>1, <6>2
        <5> QED
          BY <5>1, <5>2
      <4>10. d <= p
        <5> HIDE DEF m, stem
        <5> QED
          BY <1>6, <4>1, <4>2, <4>8, <4>9
      <4> QED
        BY <4>10 DEF d, p
    <3>6. whole(b) = w
      BY <2>4, <3>4, <3>5
    <3> HIDE DEF whole, r
    <3> QED
      BY <1>9, <3>1, <3>2, <3>6
  <2> HIDE DEF r, b
  <2> QED
    BY <2>1, <2>3, <2>7 DEF r, Text
<1> QED
  BY <1>10, <1>11

\* datRef's text is a file name and the path after the top-level name, and
\* dau1CheckFileName makes of that file name the name of the same file, .sdf and
\* quotes taken away or not.
THEOREM ReferencesReopen == NamesSpec => []ReferenceReopens
<1>1. ASSUME NamesInv PROVE ReferenceReopens
  <2> DEFINE rest == From(Written(hdspath), Len(TopText) + 1)
             f == SubSeq(DatRef, 1, Len(DatRef) - Len(rest))
             bare == IF f[1] = "'" THEN SubSeq(f, 2, Len(f) - 1) ELSE f
             field == From(place.file, LastSpot(place.file, "/") + 1)
             w == place.file
  <2> SUFFICES ASSUME hdspath # <<>>
               PROVE  /\ From(DatRef, Len(f) + 1) = rest
                      /\ w[1] # "'" /\ Last(bare) # " " /\ Cardinality(Spots(field, ".")) = 1
                            => CheckFileName(bare, FALSE) = w
    BY DEF ReferenceReopens
  <2>1. place \in Place /\ w \in GoodFile
    BY <1>1 DEF NamesInv, Place
  <2>2. PICK front \in Seq(Node), node \in Node : hdspath = Append(front, node) /\ Ends(place, front, node)
    BY <1>1 DEF NamesInv, EndsPath
  <2>3. PathRef = rest /\ rest \in Seq(Char1)
    BY <2>1, <2>2, PathRefOk DEF Text
  <2>4. FileRef(w) \in Seq(Char1)
    BY <2>1, FileRefOk DEF Text
  <2>5. DatRef = FileRef(w) \o rest
    BY <2>3 DEF DatRef
  <2> HIDE DEF rest
  <2>6. /\ SubSeq(FileRef(w) \o rest, 1, Len(FileRef(w) \o rest) - Len(rest)) = FileRef(w)
        /\ From(FileRef(w) \o rest, Len(FileRef(w)) + 1) = rest
    BY <2>3, <2>4, JoinParts
  <2>7. f = FileRef(w)
    BY <2>5, <2>6
  <2>8. bare = Bare(FileRef(w)) /\ (OneDot(w) <=> Cardinality(Spots(field, ".")) = 1)
    BY <2>7 DEF Bare, OneDot, AfterLast
  <2> HIDE DEF f, bare, field, w
  <2>9. From(DatRef, Len(f) + 1) = rest
    BY <2>5, <2>6, <2>7
  <2>10. w[1] # "'" /\ Last(bare) # " " /\ Cardinality(Spots(field, ".")) = 1 => CheckFileName(bare, FALSE) = w
    BY <2>1, <2>8, FileRefOk
  <2> QED
    BY <2>9, <2>10
<1> QED
  BY <1>1, NamesInvHolds, PTL
=============================================================================
