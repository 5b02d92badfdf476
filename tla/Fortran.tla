------------------------------ MODULE Fortran ------------------------------
(***************************************************************************)
(* The Fortran interface: locators kept in CHARACTER variables.              *)
(*                                                                         *)
(* A Fortran program holds a locator as a string with the address of the C   *)
(* locator in it.  Every wrapper imports the strings it is given, calls one  *)
(* C routine and exports the locator that the routine returns.  The status   *)
(* is inherited: a C routine that is given a bad status does nothing, except *)
(* for datAnnul, and reports its own failure by making the status bad.       *)
(*                                                                         *)
(* What the C routines do to objects is the subject of other modules.  Here  *)
(* they make and free locators, and succeed or fail.  Each action is one     *)
(* wrapper, or several that differ in the type of a value only.              *)
(***************************************************************************)

CONSTANTS
    FVar,      \* CHARACTER variables of the program
    FLoc,      \* addresses of C locators
    Null,      \* the NULL pointer of C
    NoLoc,     \* the string DAT__NOLOC
    Root,      \* the string DAT__ROOT
    Blank      \* a string that begins with neither "0" nor "<"

ASSUME FortranAssumption ==
    /\ {Null, NoLoc, Root, Blank} \cap FLoc = {}
    /\ NoLoc # Root /\ NoLoc # Blank /\ Root # Blank

VARIABLES
    fvar,      \* fvar[v]: what the variable v holds
    fstat,     \* the inherited status
    flive,     \* the C locators in memory
    flinked,   \* those of them that are in the group
    flost,     \* history: those that a wrapper failed to give back
    fdropped,  \* history: those whose variable the program gave as a result
    fstale     \* history: the variables whose locator hdsFlush has freed

fvars == <<fvar, fstat, flive, flinked, flost, fdropped, fstale>>

FText == FLoc \cup {NoLoc, Root, Blank}

-----------------------------------------------------------------------------
(* Import and export *)

\* The pointer in a string.  Whether the status was bad before plays no part.
Import(s) == IF s \in FLoc THEN s ELSE Null

\* The status that importing a string leaves.
ImportStatus(s, st) == IF s \in {Root, Blank} THEN "bad" ELSE st

\* The string for a pointer, DAT__NOLOC if the status is bad.
Export(p, st) == IF st = "ok" /\ p # Null THEN p ELSE NoLoc

\* A wrapper stores a string in the variable v, whose locator the program
\* gives up if the variable still named one.
Stores(v, s) ==
    /\ fvar' = [fvar EXCEPT ![v] = s]
    /\ fstale' = fstale \ {v}

Overwrites(v, s) ==
    /\ Stores(v, s)
    /\ fdropped' = IF v \notin fstale /\ fvar[v] \in flive
                   THEN fdropped \cup {fvar[v]} ELSE fdropped

\* What a program may give as a locator: not one that it flushed.
Given(v) == v \notin fstale

\* A few C routines look into the locator before, or whether or not, they have
\* found that there is one: a program must not give them DAT__NOLOC.
NotNull(v) == fvar[v] = NoLoc => fstat = "bad"

Same == UNCHANGED <<fvar, flive, flinked, flost, fdropped, fstale>>

-----------------------------------------------------------------------------
(* The kinds of wrappers *)

\* The status after a C routine that was given the status st: it may fail, and
\* does so when it is given a null locator.
Outcomes(st, pointers) ==
    IF st = "bad" \/ Null \in pointers THEN {"bad"} ELSE {"ok", "bad"}

\* Uses one locator and returns none.
Uses(x) ==
    /\ Given(x)
    /\ fstat' \in Outcomes(ImportStatus(fvar[x], fstat), {Import(fvar[x])})
    /\ Same

\* Uses two locators.
UsesBoth(x, y) ==
    /\ Given(x) /\ Given(y)
    /\ fstat' \in Outcomes(ImportStatus(fvar[y], ImportStatus(fvar[x], fstat)),
                           {Import(fvar[x]), Import(fvar[y])})
    /\ Same

\* Returns at once if the status is bad; the locator is not looked at then.
UsesIfOk(x) == IF fstat = "ok" THEN Uses(x) ELSE UNCHANGED fvars

\* Asks something that is answered for a null locator too.
Asks0(x) ==
    /\ Given(x)
    /\ fstat' = ImportStatus(fvar[x], fstat)
    /\ Same

\* Needs no locator.
NeedsNone ==
    /\ fstat' \in Outcomes(fstat, {})
    /\ Same

\* Always fails.
Refuses ==
    /\ fstat' = "bad"
    /\ Same

\* The C routine was given the status st and the locators in pointers, and
\* returns a new locator, which is exported to the variable z.  When it fails it
\* annuls what it had made, and z becomes DAT__NOLOC.  linked says whether the
\* new locator may, or may not, be put in the group.
Returns(z, st, pointers, linked) ==
    \/ /\ "ok" \in Outcomes(st, pointers)
       /\ \E l \in FLoc \ flive, g \in linked :
             /\ flive' = flive \cup {l}
             /\ flinked' = IF g THEN flinked \cup {l} ELSE flinked
             /\ Overwrites(z, Export(l, "ok"))
       /\ fstat' = "ok"
       /\ UNCHANGED flost
    \/ /\ fstat' = "bad"
       /\ Overwrites(z, Export(Null, "bad"))
       /\ UNCHANGED <<flive, flinked, flost>>

MakesFrom(x, z, linked) ==
    /\ Given(x)
    /\ Returns(z, ImportStatus(fvar[x], fstat), {Import(fvar[x])}, linked)

\* datFind and datParen put the new locator in the group of the one given.
InGroupOf(x) == {Import(fvar[x]) \in flinked}

\* Mutant: the result is not exported.
X_HandsBack(x, freed, st) ==
    /\ flive' = flive \ (IF freed THEN {Import(fvar[x])} ELSE {})
    /\ flinked' = flinked \cap flive'
    /\ fstat' = st
    /\ UNCHANGED <<fvar, fstale, fdropped, flost>>

\* The wrapper exports to x what the C routine has left in the pointer that
\* it imported from x: nothing if the locator was freed.
HandsBack(x, freed, st) ==
    LET p == Import(fvar[x])
        back == Export(IF freed THEN Null ELSE p, st)
    IN /\ flive' = IF freed THEN flive \ {p} ELSE flive
       /\ flinked' = flinked \cap flive'
       /\ flost' = IF ~freed /\ back # p THEN flost \cup ({p} \cap flive) ELSE flost
       /\ fstat' = st
       /\ fvar' = [fvar EXCEPT ![x] = back]
       /\ UNCHANGED <<fdropped, fstale>>

-----------------------------------------------------------------------------
(* The wrappers that make, free or give back locators *)

\* Whatever the status, the locator is freed.
DAT_ANNUL(x) ==
    /\ Given(x)
    /\ \E after \in Outcomes(ImportStatus(fvar[x], fstat), {}) : HandsBack(x, TRUE, after)

\* hdsClose returns at once if the status is bad.
HDS_CLOSE(x) ==
    LET st == ImportStatus(fvar[x], fstat) IN
    /\ Given(x)
    /\ \/ st = "bad" /\ HandsBack(x, FALSE, "bad")
       \/ st = "ok" /\ \E after \in {"ok", "bad"} : HandsBack(x, TRUE, after)

\* hdsErase needs a top-level object.
HDS_ERASE(x) ==
    LET st == ImportStatus(fvar[x], fstat) IN
    /\ Given(x) /\ NotNull(x)
    /\ \/ HandsBack(x, FALSE, "bad")
       \/ st = "ok" /\ \E after \in {"ok", "bad"} : HandsBack(x, TRUE, after)

\* datMove annuls the locator of the object only if all went well.
DAT_MOVE(x, y) ==
    LET st == ImportStatus(fvar[y], ImportStatus(fvar[x], fstat))
        outcomes == Outcomes(st, {Import(fvar[x]), Import(fvar[y])})
    IN /\ Given(x) /\ Given(y)
       /\ IF fstat = "bad" THEN UNCHANGED fvars
          ELSE \/ HandsBack(x, FALSE, "bad")
               \/ "ok" \in outcomes /\ \E after \in {"ok", "bad"} : HandsBack(x, TRUE, after)

\* datPrmry may annul the locator but does not free it.
DAT_PRMRY(x) ==
    LET st == ImportStatus(fvar[x], fstat) IN
    /\ Given(x) /\ NotNull(x)
    /\ IF fstat = "bad" THEN UNCHANGED fvars
       ELSE \E after \in Outcomes(st, {}) : HandsBack(x, FALSE, after)

DAT_CCOPY(x, y, z) ==
    /\ Given(x) /\ Given(y)
    /\ Returns(z, ImportStatus(fvar[y], ImportStatus(fvar[x], fstat)),
               {Import(fvar[x]), Import(fvar[y])}, {FALSE} \cup InGroupOf(y))
DAT_CELL(x, z) == MakesFrom(x, z, {FALSE})
DAT_CLONE(x, z) == MakesFrom(x, z, {FALSE})
DAT_COERC(x, z) == Given(x) /\ Returns(z, "bad", {}, {FALSE})
DAT_FIND(x, z) == MakesFrom(x, z, InGroupOf(x))
DAT_INDEX(x, z) == MakesFrom(x, z, InGroupOf(x))
DAT_PAREN(x, z) == MakesFrom(x, z, InGroupOf(x))
DAT_SLICE(x, z) == MakesFrom(x, z, {FALSE})
DAT_VEC(x, z) == MakesFrom(x, z, {FALSE})
DAT_TEMP(z) == Returns(z, fstat, {}, {FALSE})
HDS_NEW(z) == Returns(z, fstat, {}, {FALSE})
HDS_OPEN(z) == Returns(z, fstat, {}, {FALSE})
HDS_WILD(z) == Returns(z, "bad", {}, {FALSE})

\* hdsLink puts the locator in the group even where it fails after its checks.
HDS_LINK(x) ==
    LET p == Import(fvar[x])
        st == ImportStatus(fvar[x], fstat)
    IN /\ Given(x)
       /\ \/ fstat' \in Outcomes(st, {p}) /\ flinked' = flinked \cup ({p} \cap flive)
             /\ st = "ok"
          \/ fstat' = "bad" /\ UNCHANGED flinked
       /\ UNCHANGED <<fvar, flive, flost, fdropped, fstale>>

\* hdsFlush frees the locators of the group; the variables that name them are
\* of no use any more.
HDS_FLUSH ==
    \/ /\ fstat = "ok"
       /\ flive' = flive \ flinked
       /\ flinked' = {}
       /\ flost' = flost \ flinked
       /\ fdropped' = fdropped \ flinked
       /\ fstale' = fstale \cup {v \in FVar : fvar[v] \in flinked}
       /\ fstat' \in {"ok", "bad"}
       /\ UNCHANGED fvar
    \/ fstat' = "bad" /\ Same

-----------------------------------------------------------------------------
(* The wrappers that leave the locators as they are.  A name that ends in an *)
(* underscore stands for the wrappers of all types of values.                *)

DAT_ALTER(x) == Uses(x)
\* datBasic goes on only if the status is bad already.
DAT_BASIC(x) == Asks0(x)
DAT_CCTYP == Same /\ UNCHANGED fstat
DAT_CHSCN == NeedsNone
DAT_CLEN(x) == Uses(x)
DAT_COPY(x, y) == UsesBoth(x, y)
DAT_DREP(x) == Given(x) /\ Refuses
DAT_DSAME(x, y) == UsesBoth(x, y)
DAT_ERASE(x) == Uses(x)
DAT_ERMSG == Same /\ UNCHANGED fstat
DAT_GET(x) == Uses(x)
DAT_GETC(x) == Uses(x)
DAT_GET_(x) == Uses(x)
DAT_GET0C(x) == Uses(x)
DAT_GET0_(x) == Uses(x)
DAT_GET1C(x) == Uses(x)
DAT_GET1_(x) == Uses(x)
DAT_GETV_(x) == Uses(x)
\* A vectorised clone is made and annulled within the call.
DAT_GETVC(x) == UsesIfOk(x)
DAT_LEN(x) == Uses(x)
DAT_MAP(x) == Uses(x)
DAT_MAP_(x) == Uses(x)
DAT_MAPL(x) == Uses(x)
DAT_MAPV(x) == Uses(x)
DAT_MAPN(x) == Uses(x)
DAT_MOULD(x) == Uses(x)
\* Only a status of its own is used.
DAT_MSG(x) == Given(x) /\ Same /\ UNCHANGED fstat
DAT_NAME(x) == Uses(x)
DAT_NCOMP(x) == Uses(x)
DAT_NEW(x) == Uses(x)
DAT_NEWC(x) == Uses(x)
DAT_NEW0(x) == Uses(x)
DAT_NEW0_(x) == Uses(x)
DAT_NEW0C(x) == Uses(x)
DAT_NEW1(x) == Uses(x)
DAT_NEW1_(x) == Uses(x)
DAT_NEW1C(x) == Uses(x)
DAT_PREC(x) == UsesIfOk(x)
\* A null locator counts as a primitive, and as no structure.
DAT_PRIM(x) == Asks0(x)
DAT_PUT_(x) == Uses(x)
DAT_PUT(x) == Uses(x)
DAT_PUT1C(x) == UsesIfOk(x)
DAT_PUT1_(x) == Uses(x)
DAT_PUTV_(x) == Uses(x)
DAT_PUTVC(x) == UsesIfOk(x)
DAT_PUT0C(x) == Uses(x)
DAT_PUT0_(x) == Uses(x)
DAT_REF(x) == Uses(x)
DAT_REFCT(x) == Uses(x)
DAT_RENAM(x) == Uses(x)
DAT_RESET(x) == Uses(x)
DAT_RETYP(x) == Given(x) /\ Refuses
DAT_SHAPE(x) == Uses(x)
DAT_SIZE(x) == Uses(x)
DAT_STATE(x) == Uses(x)
DAT_STRUC(x) == Asks0(x)
DAT_THERE(x) == Uses(x)
DAT_TYPE(x) == Uses(x)
DAT_UNMAP(x) == Uses(x)
\* A bad string is an answer and not an error.
DAT_VALID(x) == Given(x) /\ Same /\ UNCHANGED fstat
DAT_WHERE == Refuses
HDS_COPY(x) == Given(x) /\ Refuses
HDS_EWILD == Refuses
HDS_FREE(x) == NotNull(x) /\ Asks0(x)
HDS_GROUP(x) == NotNull(x) /\ Uses(x)
HDS_GTUNE == NeedsNone
HDS_LOCK(x) == Given(x) /\ Refuses
\* DAT__NOLOC asks about all files.
HDS_INFOI(x) == IF fvar[x] = NoLoc THEN NeedsNone ELSE Uses(x)
HDS_SHOW == NeedsNone
HDS_STATE == Same /\ UNCHANGED fstat
HDS_STOP == Refuses
HDS_TRACE(x) == Uses(x)
HDS_TUNE == NeedsNone
DAT_CONV(x) == Given(x) /\ Refuses
DAT_RCERA(x) == Uses(x)
DAT_TUNE == NeedsNone
DAT_RCOPY(x, y) == UsesBoth(x, y)
\* The routines that report an error: the text is new, the status is kept.
DAT_ERTXT == Same /\ UNCHANGED fstat
DAT_ERDSC(x) == Given(x) /\ Same /\ UNCHANGED fstat
DAT_ERDSN(x) == Given(x) /\ Same /\ UNCHANGED fstat
HDS_START == Same /\ UNCHANGED fstat

-----------------------------------------------------------------------------
(* What the program does besides calling *)

\* It goes on after an error (ERR_ANNUL).
Recovers ==
    /\ fstat = "bad" /\ fstat' = "ok"
    /\ Same

\* It gives a variable a constant.
Assigns(v) ==
    /\ \E s \in {NoLoc, Root, Blank} : Overwrites(v, s)
    /\ UNCHANGED <<fstat, flive, flinked, flost>>

FInit ==
    /\ fvar \in [FVar -> {NoLoc, Blank}]
    /\ fstat = "ok"
    /\ flive = {} /\ flinked = {} /\ flost = {} /\ fdropped = {}
    /\ fstale = {}

\* The wrappers that leave the locators as they are, with no locator, one or two.
Quiet0 ==
    \/ DAT_CCTYP \/ DAT_CHSCN \/ DAT_ERMSG \/ DAT_WHERE
    \/ HDS_EWILD \/ HDS_GTUNE \/ HDS_SHOW \/ HDS_STATE
    \/ HDS_STOP \/ HDS_TUNE \/ DAT_TUNE \/ DAT_ERTXT
    \/ HDS_START
Quiet1(x) ==
    \/ DAT_ALTER(x) \/ DAT_BASIC(x) \/ DAT_CLEN(x) \/ DAT_DREP(x)
    \/ DAT_ERASE(x) \/ DAT_GET(x) \/ DAT_GETC(x) \/ DAT_GET_(x)
    \/ DAT_GET0C(x) \/ DAT_GET0_(x) \/ DAT_GET1C(x) \/ DAT_GET1_(x)
    \/ DAT_GETV_(x) \/ DAT_GETVC(x) \/ DAT_LEN(x) \/ DAT_MAP(x)
    \/ DAT_MAP_(x) \/ DAT_MAPL(x) \/ DAT_MAPV(x) \/ DAT_MAPN(x)
    \/ DAT_MOULD(x) \/ DAT_MSG(x) \/ DAT_NAME(x) \/ DAT_NCOMP(x)
    \/ DAT_NEW(x) \/ DAT_NEWC(x) \/ DAT_NEW0(x) \/ DAT_NEW0_(x)
    \/ DAT_NEW0C(x) \/ DAT_NEW1(x) \/ DAT_NEW1_(x) \/ DAT_NEW1C(x)
    \/ DAT_PREC(x) \/ DAT_PRIM(x) \/ DAT_PUT_(x) \/ DAT_PUT(x)
    \/ DAT_PUT1C(x) \/ DAT_PUT1_(x) \/ DAT_PUTV_(x) \/ DAT_PUTVC(x)
    \/ DAT_PUT0C(x) \/ DAT_PUT0_(x) \/ DAT_REF(x) \/ DAT_REFCT(x)
    \/ DAT_RENAM(x) \/ DAT_RESET(x) \/ DAT_RETYP(x) \/ DAT_SHAPE(x)
    \/ DAT_SIZE(x) \/ DAT_STATE(x) \/ DAT_STRUC(x) \/ DAT_THERE(x)
    \/ DAT_TYPE(x) \/ DAT_UNMAP(x) \/ DAT_VALID(x) \/ HDS_COPY(x)
    \/ HDS_FREE(x) \/ HDS_GROUP(x) \/ HDS_LOCK(x) \/ HDS_INFOI(x)
    \/ HDS_TRACE(x) \/ DAT_CONV(x) \/ DAT_RCERA(x) \/ DAT_ERDSC(x)
    \/ DAT_ERDSN(x)
Quiet2(x, y) == DAT_COPY(x, y) \/ DAT_DSAME(x, y) \/ DAT_RCOPY(x, y)

FCall ==
    \/ HDS_FLUSH \/ Quiet0
    \/ \E x \in FVar :
          \/ DAT_ANNUL(x) \/ HDS_CLOSE(x) \/ HDS_ERASE(x) \/ DAT_PRMRY(x)
          \/ HDS_LINK(x) \/ Quiet1(x)
    \/ \E x, y \in FVar : DAT_MOVE(x, y) \/ Quiet2(x, y)
    \/ \E z \in FVar : DAT_TEMP(z) \/ HDS_NEW(z) \/ HDS_OPEN(z) \/ HDS_WILD(z)
    \/ \E x, z \in FVar :
          \/ DAT_CELL(x, z) \/ DAT_CLONE(x, z) \/ DAT_COERC(x, z) \/ DAT_FIND(x, z)
          \/ DAT_INDEX(x, z) \/ DAT_PAREN(x, z) \/ DAT_SLICE(x, z) \/ DAT_VEC(x, z)
    \/ \E x, y, z \in FVar : DAT_CCOPY(x, y, z)

FNext == FCall \/ Recovers \/ \E v \in FVar : Assigns(v)

FSpec == FInit /\ [][FNext]_fvars

-----------------------------------------------------------------------------
(* Properties *)

\* The types of the variables.
FTypeOK ==
    /\ fvar \in [FVar -> FText]
    /\ fstat \in {"ok", "bad"}
    /\ flive \subseteq FLoc /\ flinked \subseteq flive
    /\ flost \subseteq flive /\ fdropped \subseteq flive
    /\ fstale \subseteq FVar

\* Variables and locators in memory belong together one to one, whatever calls
\* are made in good and bad status: no variable names a locator that a wrapper
\* has freed, no two name the same one, and each locator is named, so that the
\* program can annul it, unless the program overwrote the variable or a wrapper
\* that failed did not give the locator back (datImportFloc, datExportFloc).
FHeldOnce ==
    /\ \A v \in FVar \ fstale : fvar[v] \in FLoc => fvar[v] \in flive \ (flost \cup fdropped)
    /\ \A v, w \in FVar \ fstale : fvar[v] \in FLoc /\ fvar[v] = fvar[w] => v = w
    /\ \A l \in flive \ (flost \cup fdropped) : \E v \in FVar \ fstale : fvar[v] = l

\* With a bad status nothing is made, and nothing is freed but by DAT_ANNUL,
\* which always works and leaves DAT__NOLOC; the status stays bad until the
\* program recovers (inherited status, datAnnul, dat1ImportFloc).
FInherited ==
    [][/\ fstat = "bad" => /\ flive' = flive \/ \E v \in FVar : DAT_ANNUL(v)
                           /\ fstat' = "bad" \/ Recovers
       /\ \A v \in FVar : DAT_ANNUL(v) => fvar[v] \notin flive' /\ fvar'[v] = NoLoc]_fvars
=============================================================================
