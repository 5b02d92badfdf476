---------------------------- MODULE ObjectsProofs ----------------------------
(***************************************************************************)
(* Proofs about the modules Mapping and Hierarchy, which one run checks      *)
(* together.                                                                *)
(*                                                                         *)
(* Mapping is proved for any number of threads, locators, elements and      *)
(* datasets.  Its inductive invariant is TypeOK together with               *)
(* SinceJustified, which spells out what it means that a mapping is still   *)
(* up to date.                                                              *)
(*                                                                         *)
(* Hierarchy is proved for any number of files, objects, Handles, locators  *)
(* and names, under the rules of a careful program.  Its inductive invariant *)
(* is TreesInv: objects and Handles are trees without circles in which names *)
(* are unique, and the live Handles of the objects in use are a copy, in    *)
(* place and name, of a part of the tree of objects.  What is said of paths  *)
(* comes from a characterisation of Chain, of being in the hierarchy and of  *)
(* being below, each by what it is for a node and the one above it.          *)
(*                                                                         *)
(* Hierarchy implements ObjectTree, and its moves and copies are whole.       *)
(* Objects of the hierarchy have different paths, and one is the beginning   *)
(* of another exactly if that object is below this one.  So what users see,  *)
(* ByPath, is known from the trees: it is the one function that Sees them.   *)
(* For each way to change a tree of objects a lemma says what is then seen   *)
(* of it.  The invariant is TreesInv together with Upright: what is in a     *)
(* group of the hierarchy is in a structure.                                *)
(***************************************************************************)
EXTENDS Mapping, Hierarchy, ListsProofs, FunctionTheorems, FiniteSetTheorems

(* Mapping *)

IInv == TypeOK /\ SinceJustified

-----------------------------------------------------------------------------
(* Buffers, contents and locators *)

\* What it is to be a buffer.
LEMMA BufferOk ==
    /\ \A b \in Buffer : b \in [DOMAIN b -> Value] /\ DOMAIN b \subseteq Cell
    /\ \A S \in SUBSET Cell : \A b \in [S -> Value] : b \in Buffer
    /\ Empty \in Buffer /\ DOMAIN Empty = {}
<1>1. ASSUME NEW S \in SUBSET Cell, NEW b \in [S -> Value] PROVE b \in Buffer
  BY DEF Buffer
<1>2. Empty \in [{} -> Value] /\ DOMAIN Empty = {}
  BY DEF Empty
<1> QED
  BY <1>1, <1>2 DEF Buffer

\* Writing a buffer into a dataset defines all of its elements, and those of
\* the buffer as the buffer says.
LEMMA OverwriteOk ==
    ASSUME NEW d \in [Cell -> Value] \cup {Unset}, NEW b \in Buffer
    PROVE  /\ Overwrite(d, b) \in [Cell -> Value]
           /\ Part(Overwrite(d, b), DOMAIN b) = b
<1>1. b \in [DOMAIN b -> Value] /\ DOMAIN b \subseteq Cell
  BY BufferOk
<1>2. Overwrite(d, b) \in [Cell -> Value]
  BY <1>1, MappingAssumption DEF Overwrite
<1>3. \A c \in DOMAIN b : Overwrite(d, b)[c] = b[c]
  BY <1>1 DEF Overwrite
<1> QED
  BY <1>1, <1>2, <1>3 DEF Part

\* The part of TypeOK that is about one locator.
LocatorOK(r) ==
    /\ r \in Locator
    /\ r.ds # 0 <=> r.sel # {}
    /\ r.mode # "none" <=> DOMAIN r.buf # {}
    /\ r.mode # "none" => r.ds # 0

\* What TypeOK says of all locators, said of each.
LEMMA LocatorOkType ==
    ASSUME NEW f
    PROVE  (/\ f \in [Loc -> Locator]
            /\ \A l \in Loc : /\ f[l].ds # 0 <=> f[l].sel # {}
                              /\ f[l].mode # "none" <=> DOMAIN f[l].buf # {}
                              /\ f[l].mode # "none" => f[l].ds # 0)
           <=> /\ f = [l \in Loc |-> f[l]]
               /\ \A l \in Loc : LocatorOK(f[l])
  BY DEF LocatorOK

\* TypeOK in terms of LocatorOK.
LEMMA TypeOkLoc ==
    TypeOK <=> /\ intent \in {"RDONLY", "RDWR", "closed"}
               /\ linked \in Dataset
               /\ data \in [Dataset -> [Cell -> Value] \cup {Unset}]
               /\ wr \in SUBSET Thread /\ rd \in SUBSET Thread
               /\ wr = {} \/ (rd = {} /\ \E t \in Thread : wr = {t})
               /\ loc = [l \in Loc |-> loc[l]]
               /\ \A l \in Loc : LocatorOK(loc[l])
               /\ since \in [Loc -> Thread \cup {NoThread}]
  BY LocatorOkType DEF TypeOK, Live, Mapped

\* A locator that is annulled or fresh from datFind, datClone or datSlice.
LEMMA UnmappedOk ==
    /\ LocatorOK(Annulled)
    /\ \A d \in Dataset, S \in SUBSET Cell, s \in BOOLEAN :
          S # {} => LocatorOK(Unmapped(d, S, s))
<1>1. /\ MaxDataset \in Nat /\ Dataset \subseteq 0..MaxDataset /\ 0 \in 0..MaxDataset
      /\ 0 \notin Dataset
  BY MappingAssumption DEF Dataset
<1>2. Annulled \in Locator /\ DOMAIN Annulled.buf = {}
  BY <1>1, BufferOk DEF Annulled, Locator
<1> QED
  BY ZenonT(40), <1>1, <1>2 DEF Annulled, Unmapped, LocatorOK, Locator

\* What replacing one locator does to the table of locators.
LEMMA ReplaceOne ==
    ASSUME TypeOK, NEW l \in Loc, NEW r, LocatorOK(r), loc' = [loc EXCEPT ![l] = r]
    PROVE  /\ loc' = [m \in Loc |-> loc'[m]]
           /\ \A m \in Loc : LocatorOK(loc'[m])
           /\ loc'[l] = r
           /\ \A m \in Loc : m # l => loc'[m] = loc[m]
  BY TypeOkLoc

-----------------------------------------------------------------------------
(* The invariant *)

\* SinceJustified for one locator.
Justified(l) ==
    since[l] # NoThread =>
        /\ Mapped(l) /\ loc[l].ds = linked
        /\ Holds(since[l], loc[l].mode = "READ")
        /\ loc[l].mode = "READ" => loc[l].buf = Part(Stored, loc[l].sel)
        /\ loc[l].mode \in Writing => /\ ~loc[l].trueMmap /\ ~loc[l].scalar
                                     /\ intent = "RDWR"
                                     /\ DOMAIN loc[l].buf = loc[l].sel

\* Said of each locator.
LEMMA SinceAll == SinceJustified <=> \A l \in Loc : Justified(l)
  BY DEF SinceJustified, Justified

\* No mapping is out of date unnoticed when nothing but locks and "since"
\* changed, and every thread still named has the lock its mapping needs.
LEMMA LockStep ==
    ASSUME IInv, UNCHANGED <<intent, linked, data, loc>>,
           NEW l \in Loc,
           since'[l] # NoThread =>
              since'[l] = since[l] /\ Holds(since[l], loc[l].mode = "READ")'
    PROVE  Justified(l)'
  BY SinceAll DEF IInv, Justified, Mapped, Holds, Stored, Part

\* Each call keeps the invariant: a lock for reading, which demotes the one for
\* writing,
LEMMA LockReadInv ==
    ASSUME IInv, NEW t \in Thread, LockRead(t)
    PROVE  IInv'
<1> USE DEF LockRead
<1>1. TypeOK'
  <2>1. since' \in [Loc -> Thread \cup {NoThread}]
    BY DEF IInv, TypeOK, KeepSince
  <2>2. UNCHANGED <<intent, linked, data, loc>> /\ wr' = {} /\ rd' \in SUBSET Thread
    BY DEF IInv, TypeOK
  <2> QED
    BY <2>1, <2>2, TypeOkLoc, TypeOkLoc DEF IInv, TypeOK, Live, Mapped
<1>2. ASSUME NEW l \in Loc PROVE Justified(l)'
  <2> SUFFICES ASSUME since'[l] # NoThread
               PROVE  since'[l] = since[l] /\ Holds(since[l], loc[l].mode = "READ")'
    BY LockStep
  <2>1. since'[l] = since[l] /\ (since[l] = t => loc[l].mode \notin Writing)
    BY DEF KeepSince
  <2>2. Mapped(l) /\ Holds(since[l], loc[l].mode = "READ") /\ loc[l].mode \in {"READ"} \cup Writing
    BY <2>1, SinceAll DEF IInv, Justified, TypeOK, Locator, Mapped
  <2>3. since[l] \in rd' /\ loc'[l].mode = "READ"
    BY <2>1, <2>2 DEF Holds, Writing
  <2> QED
    BY <2>1, <2>3 DEF Holds
<1> QED
  BY <1>1, <1>2, SinceAll DEF IInv, SinceJustified, Justified

\* a lock for writing,
LEMMA LockWriteInv ==
    ASSUME IInv, NEW t \in Thread, LockWrite(t)
    PROVE  IInv'
<1> USE DEF LockWrite
<1>1. TypeOK'
  BY DEF IInv, TypeOK, Live, Mapped
<1>2. ASSUME NEW l \in Loc PROVE Justified(l)'
  <2> SUFFICES ASSUME since'[l] # NoThread
               PROVE  since'[l] = since[l] /\ Holds(since[l], loc[l].mode = "READ")'
    BY LockStep
  <2>1. since'[l] = since[l] /\ Holds(since[l], loc[l].mode = "READ")
    BY SinceAll DEF IInv, Justified
  <2>2. since[l] = t
    BY <2>1 DEF Holds
  <2> QED
    BY <2>1, <2>2 DEF Holds
<1> QED
  BY <1>1, <1>2, SinceAll DEF IInv, SinceJustified, Justified

\* an unlock,
LEMMA UnlockInv ==
    ASSUME IInv, NEW t \in Thread, Unlock(t)
    PROVE  IInv'
<1> USE DEF Unlock
<1>1. TypeOK'
  <2>1. since' \in [Loc -> Thread \cup {NoThread}]
    BY DEF IInv, TypeOK, KeepSince
  <2>2. /\ wr' \in SUBSET Thread /\ rd' \in SUBSET Thread
        /\ wr' = {} \/ (rd' = {} /\ \E u \in Thread : wr' = {u})
    BY DEF IInv, TypeOK
  <2> QED
    BY <2>1, <2>2 DEF IInv, TypeOK, Live, Mapped
<1>2. ASSUME NEW l \in Loc PROVE Justified(l)'
  <2> SUFFICES ASSUME since'[l] # NoThread
               PROVE  since'[l] = since[l] /\ Holds(since[l], loc[l].mode = "READ")'
    BY LockStep
  <2>1. since'[l] = since[l] /\ since[l] # t
    BY MappingAssumption DEF KeepSince
  <2>2. Holds(since[l], loc[l].mode = "READ")
    BY <2>1, SinceAll DEF IInv, Justified
  <2> QED
    BY <2>1, <2>2 DEF Holds
<1> QED
  BY <1>1, <1>2, SinceAll DEF IInv, SinceJustified, Justified

\* A step that replaces one locator, which "since" does not name any more, by
\* one that is in order, and changes neither data, locks nor the file.
LEMMA ReplaceInv ==
    ASSUME IInv, NEW l \in Loc, NEW r, LocatorOK(r), loc' = [loc EXCEPT ![l] = r],
           UNCHANGED <<intent, linked, data, lockVars>>,
           since' \in [Loc -> Thread \cup {NoThread}],
           Justified(l)',
           \A m \in Loc : m # l => since'[m] = since[m]
    PROVE  IInv'
<1>1. /\ loc' = [m \in Loc |-> loc'[m]] /\ \A m \in Loc : LocatorOK(loc'[m])
      /\ \A m \in Loc : m # l => loc'[m] = loc[m]
  BY ReplaceOne DEF IInv
<1>2. TypeOK'
  <2>1. loc' \in [Loc -> Locator]
    BY <1>1 DEF LocatorOK
  <2> QED
    BY <1>1, <2>1 DEF IInv, TypeOK, LocatorOK, Live, Mapped, lockVars
<1>3. ASSUME NEW m \in Loc, m # l PROVE Justified(m)'
  BY <1>1, <1>3, SinceAll DEF IInv, Justified, Mapped, Holds, Stored, Part, lockVars
<1> QED
  BY <1>2, <1>3, SinceAll DEF IInv, SinceJustified, Justified

\* a locator for the whole object,
LEMMA FindInv ==
    ASSUME IInv, NEW l \in Loc, Find(l)
    PROVE  IInv'
<1>1. LocatorOK(Unmapped(linked, Cell, FALSE))
  BY UnmappedOk, MappingAssumption DEF IInv, TypeOK
<1>2. since'[l] = NoThread
  BY SinceAll DEF IInv, Justified, Find, Mapped, Live, TypeOK
<1> QED
  BY <1>1, <1>2, ReplaceInv DEF Find, Justified, IInv, TypeOK

\* datClone and datSlice: m becomes a locator to part of what l refers to.
LEMMA DeriveInv ==
    ASSUME IInv, NEW t \in Thread, Derive(t)
    PROVE  IInv'
<1>1. PICK l \in Loc, m \in Loc, S \in SUBSET Cell, s \in BOOLEAN :
        /\ Live(l) /\ ~Live(m) /\ S # {}
        /\ loc' = [loc EXCEPT ![m] = Unmapped(loc[l].ds, S, s)]
        /\ UNCHANGED <<intent, linked, data, lockVars, since>>
  <2>1. PICK l \in Loc, m \in Loc :
          Clone(t, l, m) \/ \E S \in SUBSET Cell : Slice(t, l, m, S)
    BY DEF Derive
  <2>2. Live(l) /\ loc[l].sel # {} /\ loc[l].sel \in SUBSET Cell /\ loc[l].slice \in BOOLEAN
    BY <2>1 DEF Clone, Slice, Usable, Live, IInv, TypeOK, Locator
  <2>3. CASE Clone(t, l, m)
    BY <2>2, <2>3 DEF Clone, Usable
  <2>4. CASE \E S \in SUBSET Cell : Slice(t, l, m, S)
    BY <2>2, <2>4 DEF Slice, Usable
  <2> QED
    BY <2>1, <2>3, <2>4
<1>2. loc[l].ds \in Dataset
  BY <1>1, MappingAssumption DEF IInv, TypeOK, Locator, Live, Dataset
<1>3. LocatorOK(Unmapped(loc[l].ds, S, s))
  BY <1>1, <1>2, UnmappedOk
<1>4. since'[m] = NoThread
  BY <1>1, SinceAll DEF IInv, Justified, Mapped, Live, TypeOK
<1> QED
  BY <1>1, <1>3, <1>4, ReplaceInv DEF Justified, IInv, TypeOK

\* a value that the program puts into a mapped buffer,
LEMMA ModifyInv ==
    ASSUME IInv, NEW l \in Loc, NEW c \in Cell, NEW v \in Value, Modify(l, c, v)
    PROVE  IInv'
<1> DEFINE b == [loc[l].buf EXCEPT ![c] = v]
           r == [loc[l] EXCEPT !.buf = b]
<1>1. LocatorOK(loc[l])
  BY TypeOkLoc DEF IInv
<1>2. b \in Buffer /\ DOMAIN b = DOMAIN loc[l].buf
  <2>1. loc[l].buf \in [DOMAIN loc[l].buf -> Value] /\ DOMAIN loc[l].buf \subseteq Cell
    BY <1>1, BufferOk DEF LocatorOK, Locator
  <2>2. b \in [DOMAIN loc[l].buf -> Value]
    BY <2>1
  <2> QED
    BY <2>1, <2>2, BufferOk
<1>3. LocatorOK(r)
  BY <1>1, <1>2 DEF LocatorOK, Locator
<1>4. loc' = [loc EXCEPT ![l] = r]
  BY DEF Modify
<1>5. since' \in [Loc -> Thread \cup {NoThread}] /\ \A m \in Loc : m # l => since'[m] = since[m]
  BY DEF Modify, IInv, TypeOK
<1>6. Justified(l)'
  <2> SUFFICES ASSUME since'[l] # NoThread PROVE Justified(l)'
    BY DEF Justified
  <2>1. since'[l] = since[l] /\ loc[l].mode # "READ"
    BY DEF Modify, IInv, TypeOK
  <2>2. loc'[l] = r
    BY <1>4 DEF IInv, TypeOK
  <2>3. Justified(l)
    BY SinceAll DEF IInv
  <2> HIDE DEF b
  <2> QED
    BY <1>1, <1>2, <2>1, <2>2, <2>3
       DEF Justified, Modify, Mapped, Holds, lockVars, LocatorOK, Locator
<1> QED
  <2> HIDE DEF r
  <2> QED
    BY <1>3, <1>4, <1>5, <1>6, ReplaceInv DEF Modify

\* t, which has the read-write lock, writes b through a locator; "since" then
\* names t for no READ mapping.
LEMMA WriteInv ==
    ASSUME IInv, NEW t \in Thread, NEW l \in Loc, NEW b \in Buffer,
           wr = {t}, loc[l].ds \in Dataset,
           data' = [data EXCEPT ![loc[l].ds] = Overwrite(@, b)],
           UNCHANGED <<intent, linked, lockVars>>,
           NEW m \in Loc, loc'[m] = loc[m],
           since'[m] # NoThread => since'[m] = OutdateReads(t)[m]
    PROVE  Justified(m)'
<1> SUFFICES ASSUME since'[m] # NoThread PROVE Justified(m)'
  BY DEF Justified
<1>1. since'[m] = since[m] /\ ~(since[m] = t /\ loc[m].mode = "READ")
  BY DEF OutdateReads
<1>2. Justified(m)
  BY SinceAll DEF IInv
<1>3. since[m] = t
  BY <1>1, <1>2 DEF Justified, Holds, IInv, TypeOK
<1> QED
  BY <1>1, <1>2, <1>3 DEF Justified, Mapped, Holds, lockVars

\* The data stay well typed when a buffer is written to them.
LEMMA WriteType ==
    ASSUME TypeOK, NEW d \in Dataset, NEW b \in Buffer,
           data' = [data EXCEPT ![d] = Overwrite(@, b)]
    PROVE  data' \in [Dataset -> [Cell -> Value] \cup {Unset}]
<1>1. Overwrite(data[d], b) \in [Cell -> Value]
  BY OverwriteOk DEF TypeOK
<1> QED
  BY <1>1 DEF TypeOK

\* A put that succeeds is made by the thread that has the read-write lock.
LEMMA PutFacts ==
    ASSUME IInv, NEW t \in Thread, NEW l \in Loc, NEW b, NEW scalar \in BOOLEAN,
           PutSucceeds(t, l, b, scalar)
    PROVE  wr = {t} /\ loc[l].ds \in Dataset
  BY MappingAssumption
     DEF PutSucceeds, Usable, Holds, Live, IInv, TypeOK, Locator, Dataset

\* Each call keeps the invariant, continued: datPut,
LEMMA PutInv ==
    ASSUME IInv, NEW t \in Thread, NEW l \in Loc,
           NEW b \in [loc[l].sel -> Value], Put(t, l, b)
    PROVE  IInv'
<1>1. wr = {t} /\ loc[l].ds \in Dataset
  BY PutFacts DEF Put
<1>2. b \in Buffer
  BY BufferOk DEF IInv, TypeOK, Locator
<1>3. TypeOK'
  <2>1. data' \in [Dataset -> [Cell -> Value] \cup {Unset}]
    BY <1>1, <1>2, WriteType DEF Put, IInv
  <2>2. since' \in [Loc -> Thread \cup {NoThread}]
    BY DEF Put, OutdateReads, IInv, TypeOK
  <2> QED
    BY <2>1, <2>2 DEF Put, IInv, TypeOK, Live, Mapped, lockVars
<1>4. ASSUME NEW m \in Loc PROVE Justified(m)'
  BY <1>1, <1>2, WriteInv DEF Put
<1> QED
  BY <1>3, <1>4, SinceAll DEF IInv, SinceJustified, Justified

\* datReset, which makes a new dataset,
LEMMA ResetInv ==
    ASSUME IInv, NEW t \in Thread, NEW l \in Loc, Reset(t, l)
    PROVE  IInv'
<1> DEFINE r == [loc[l] EXCEPT !.ds = linked + 1, !.sel = Cell]
<1>1. linked + 1 \in Dataset /\ linked + 1 \in 0..MaxDataset /\ linked + 1 # 0
  BY MappingAssumption DEF Reset, IInv, TypeOK, Dataset
<1>2. LocatorOK(r)
  <2>1. LocatorOK(loc[l])
    BY TypeOkLoc DEF IInv
  <2> QED
    BY <1>1, <2>1, MappingAssumption DEF LocatorOK, Locator
<1>3. loc' = [loc EXCEPT ![l] = r]
  BY DEF Reset, IInv, TypeOK
<1>4. /\ loc' = [m \in Loc |-> loc'[m]] /\ \A m \in Loc : LocatorOK(loc'[m])
  <2> HIDE DEF r
  <2> QED
    BY <1>2, <1>3, ReplaceOne DEF IInv
<1>5. TypeOK'
  <2>1. loc' \in [Loc -> Locator]
    BY <1>4 DEF LocatorOK
  <2>2. since' \in [Loc -> Thread \cup {NoThread}]
    BY DEF Reset
  <2> QED
    BY <1>1, <1>4, <2>1, <2>2 DEF Reset, IInv, TypeOK, LocatorOK, Live, Mapped, lockVars
<1> QED
  BY <1>5 DEF IInv, SinceJustified, Reset

\* What datMap leaves in the locator is in order.
LEMMA MapInv ==
    ASSUME IInv, NEW t \in Thread, NEW l \in Loc, NEW mode \in {"READ"} \cup Writing,
           NEW direct \in BOOLEAN, NEW scalar \in BOOLEAN,
           Map(t, l, mode, direct, scalar)
    PROVE  IInv'
<1> DEFINE S == loc[l].sel
           b == Filled(l, mode)
           r == [loc[l] EXCEPT !.mode = mode, !.buf = b, !.mmapped = direct,
                               !.trueMmap = loc[l].trueMmap \/ direct, !.scalar = scalar]
<1>1. LocatorOK(loc[l]) /\ Live(l) /\ S # {} /\ S \in SUBSET Cell
  BY TypeOkLoc DEF IInv, Map, Usable, Live, LocatorOK, Locator
<1>2. loc[l].ds \in Dataset
  BY <1>1, MappingAssumption DEF LocatorOK, Locator, Live, Dataset
<1>3. b \in [S -> Value]
  <2>1. CASE mode = "WRITE"
    BY <2>1, MappingAssumption DEF Filled
  <2>2. CASE mode # "WRITE"
    <3>1. data[loc[l].ds] \in [Cell -> Value]
      BY <1>2, <2>2 DEF Map, IInv, TypeOK
    <3> QED
      BY <1>1, <2>2, <3>1 DEF Filled, Part
  <2> QED
    BY <2>1, <2>2
<1>4. b \in Buffer /\ DOMAIN b = S
  BY <1>1, <1>3, BufferOk
<1>5. loc' = [loc EXCEPT ![l] = r]
  BY DEF Map, SetMapping
<1>6. LocatorOK(r)
  <2> HIDE DEF b
  <2>1. r \in Locator
    BY <1>1, <1>4 DEF LocatorOK, Locator, Writing
  <2> QED
    BY <1>1, <1>4, <2>1 DEF LocatorOK, Live, Writing
<1>7. since' \in [Loc -> Thread \cup {NoThread}] /\ \A m \in Loc : m # l => since'[m] = since[m]
  BY DEF Map, IInv, TypeOK
<1>8. Justified(l)'
  <2> SUFFICES ASSUME since'[l] # NoThread PROVE Justified(l)'
    BY DEF Justified
  <2>1. /\ since'[l] = t /\ loc[l].ds = linked
        /\ mode \in Writing => ~loc[l].trueMmap /\ ~scalar /\ wr = {t}
    BY DEF Map, IInv, TypeOK
  <2>2. loc'[l] = r
    BY <1>5 DEF IInv, TypeOK
  <2>3. /\ r.mode = mode /\ r.buf = b /\ r.sel = S /\ r.ds = loc[l].ds
        /\ r.trueMmap = (loc[l].trueMmap \/ direct) /\ r.scalar = scalar
    BY <1>1 DEF LocatorOK, Locator
  <2>4. mode \in Writing => intent = "RDWR" /\ ~direct
    BY DEF Map, MayMmap, Usable, IInv, TypeOK
  <2>5. mode = "READ" => Holds(t, TRUE) /\ b = Part(Stored, S)
    BY <2>1 DEF Map, Usable, Stored, Filled, Writing
  <2>6. UNCHANGED <<intent, linked, data, wr, rd>>
    BY DEF Map, lockVars
  <2> HIDE DEF b, S, r
  <2>7. Mapped(l)' /\ loc'[l].ds = linked'
    BY <2>1, <2>2, <2>3, <2>6 DEF Mapped, Writing
  <2>8. Holds(since[l], loc[l].mode = "READ")'
    BY <2>1, <2>2, <2>3, <2>5, <2>6 DEF Holds, Writing
  <2>9. loc'[l].mode = "READ" => loc'[l].buf = Part(Stored, loc[l].sel)'
    BY <2>2, <2>3, <2>5, <2>6 DEF Stored, Part
  <2> QED
    BY <1>4, <2>1, <2>2, <2>3, <2>4, <2>6, <2>7, <2>8, <2>9 DEF Justified
<1> QED
  <2> HIDE DEF r
  <2> QED
    BY <1>5, <1>6, <1>7, <1>8, ReplaceInv DEF Map

\* What CopyBack does, to data and to "since".
LEMMA CopyBackFacts ==
    ASSUME IInv, NEW t \in Thread, NEW l \in Loc, CopyBack(t, l)
    PROVE  /\ since' \in [Loc -> Thread \cup {NoThread}] /\ since'[l] = NoThread
           /\ data' \in [Dataset -> [Cell -> Value] \cup {Unset}]
           /\ CopiedBack(t, l) =>
                /\ wr = {t} /\ loc[l].ds \in Dataset /\ loc[l].buf \in Buffer
                /\ data' = [data EXCEPT ![loc[l].ds] = Overwrite(@, loc[l].buf)]
                /\ \A m \in Loc : since'[m] # NoThread => since'[m] = OutdateReads(t)[m]
           /\ ~CopiedBack(t, l) =>
                /\ data' = data
                /\ \A m \in Loc : m # l => since'[m] = since[m]
<1>1. since \in [Loc -> Thread \cup {NoThread}] /\ OutdateReads(t) \in [Loc -> Thread \cup {NoThread}]
  BY DEF IInv, TypeOK, OutdateReads
<1>2. CASE CopiedBack(t, l)
  <2>1. loc[l].buf \in Buffer /\ loc[l].scalar \in BOOLEAN
    BY DEF IInv, TypeOK, Locator
  <2>2. wr = {t} /\ loc[l].ds \in Dataset
    BY <1>2, <2>1, PutFacts DEF CopiedBack
  <2>3. /\ data' = [data EXCEPT ![loc[l].ds] = Overwrite(@, loc[l].buf)]
        /\ since' = [OutdateReads(t) EXCEPT ![l] = NoThread]
    BY <1>2 DEF CopyBack
  <2>4. data' \in [Dataset -> [Cell -> Value] \cup {Unset}]
    BY <2>1, <2>2, <2>3, WriteType DEF IInv
  <2> QED
    BY <1>1, <1>2, <2>1, <2>2, <2>3, <2>4
<1>3. CASE ~CopiedBack(t, l)
  BY <1>1, <1>3 DEF CopyBack, IInv, TypeOK
<1> QED
  BY <1>2, <1>3

\* datUnmap and datAnnul: copy back, then r replaces the locator.
LEMMA CopyBackInv ==
    ASSUME IInv, NEW t \in Thread, NEW l \in Loc, CopyBack(t, l),
           NEW r, LocatorOK(r), loc' = [loc EXCEPT ![l] = r],
           UNCHANGED <<intent, linked, lockVars>>
    PROVE  IInv'
<1>1. /\ loc' = [m \in Loc |-> loc'[m]] /\ \A m \in Loc : LocatorOK(loc'[m])
      /\ \A m \in Loc : m # l => loc'[m] = loc[m]
  BY ReplaceOne DEF IInv
<1>2. TypeOK'
  <2>1. loc' \in [Loc -> Locator]
    BY <1>1 DEF LocatorOK
  <2> QED
    BY <1>1, <2>1, CopyBackFacts DEF IInv, TypeOK, LocatorOK, Live, Mapped, lockVars
<1>3. ASSUME NEW m \in Loc PROVE Justified(m)'
  <2>1. CASE m = l
    BY <2>1, CopyBackFacts DEF Justified
  <2>2. CASE m # l /\ CopiedBack(t, l)
    BY <1>1, <2>2, CopyBackFacts, WriteInv
  <2>3. CASE m # l /\ ~CopiedBack(t, l)
    BY <1>1, <2>3, CopyBackFacts, SinceAll
       DEF IInv, Justified, Mapped, Holds, Stored, Part, lockVars
  <2> QED
    BY <2>1, <2>2, <2>3
<1> QED
  BY <1>2, <1>3, SinceAll DEF IInv, SinceJustified, Justified

\* datUnmap, which copies back what was changed,
LEMMA UnmapInv ==
    ASSUME IInv, NEW t \in Thread, NEW l \in Loc, Unmap(t, l)
    PROVE  IInv'
<1> DEFINE r == [loc[l] EXCEPT !.mode = "none", !.buf = Empty,
                               !.mmapped = FALSE, !.scalar = FALSE]
<1>1. LocatorOK(r)
  <2>1. LocatorOK(loc[l]) /\ Empty \in Buffer /\ DOMAIN Empty = {}
    BY TypeOkLoc, BufferOk DEF IInv
  <2> QED
    BY <2>1 DEF LocatorOK, Locator
<1>2. loc' = [loc EXCEPT ![l] = r]
  BY DEF Unmap
<1> HIDE DEF r
<1> QED
  BY <1>1, <1>2, CopyBackInv DEF Unmap

\* datAnnul, which unmaps first,
LEMMA AnnulInv ==
    ASSUME IInv, NEW t \in Thread, NEW l \in Loc, Annul(t, l)
    PROVE  IInv'
  BY UnmappedOk, CopyBackInv DEF Annul

\* and an hdsOpen for update.
LEMMA ReopenInv ==
    ASSUME IInv, Reopen
    PROVE  IInv'
<1>1. TypeOK'
  BY DEF IInv, TypeOK, Reopen, Live, Mapped, lockVars
<1>2. ASSUME NEW l \in Loc PROVE Justified(l)'
  BY SinceAll DEF IInv, Reopen, Justified, Mapped, Holds, Stored, Part, lockVars
<1> QED
  BY <1>1, <1>2, SinceAll DEF IInv, SinceJustified, Justified

\* The invariant holds in the beginning.
LEMMA InitInv == Init => IInv
<1> SUFFICES ASSUME Init PROVE IInv
  OBVIOUS
<1>1. linked \in Dataset
  BY MappingAssumption DEF Init, Dataset
<1>2. data \in [Dataset -> [Cell -> Value] \cup {Unset}]
  BY DEF Init
<1>3. \A l \in Loc : loc[l] = Annulled /\ LocatorOK(loc[l])
  BY UnmappedOk DEF Init
<1>4. TypeOK
  BY <1>1, <1>2, <1>3, TypeOkLoc DEF Init
<1>5. SinceJustified
  BY DEF Init, SinceJustified
<1> QED
  BY <1>4, <1>5 DEF IInv

\* Every step keeps it.
LEMMA NextInv == IInv /\ [Next]_vars => IInv'
<1> SUFFICES ASSUME IInv, [Next]_vars PROVE IInv'
  OBVIOUS
<1>1. ASSUME NEW t \in Thread, Lock(t) PROVE IInv'
  BY <1>1, LockReadInv, LockWriteInv, UnlockInv DEF Lock
<1>2. ASSUME NEW t \in Thread, Derive(t) PROVE IInv'
  BY <1>2, DeriveInv
<1>3. ASSUME NEW t \in Thread, Store(t) PROVE IInv'
  BY <1>3, PutInv, ResetInv DEF Store
<1>4. ASSUME NEW t \in Thread, UseMapping(t) PROVE IInv'
  BY <1>4, MapInv, UnmapInv, AnnulInv DEF UseMapping
<1>5. ASSUME NEW l \in Loc, Find(l) PROVE IInv'
  BY <1>5, FindInv
<1>6. ASSUME NEW l \in Loc, NEW c \in Cell, NEW v \in Value, Modify(l, c, v) PROVE IInv'
  BY <1>6, ModifyInv
<1>7. CASE Reopen
  BY <1>7, ReopenInv
<1>8. CASE UNCHANGED vars
  BY <1>8 DEF vars, lockVars, IInv, TypeOK, SinceJustified, Live, Mapped, Holds, Stored, Part
<1> QED
  BY <1>1, <1>2, <1>3, <1>4, <1>5, <1>6, <1>7, <1>8 DEF Next

-----------------------------------------------------------------------------
(* Theorems *)

\* So it holds in every state.
LEMMA Invariant == Spec => []IInv
  BY InitInv, NextInv, PTL DEF Spec

\* The state of mappings, locators and locks is always well formed: in
\* particular a locator has a buffer exactly while it is mapped.
THEOREM MappingTypeCorrect == Spec => []TypeOK
<1>1. IInv => TypeOK
  BY DEF IInv
<1> QED
  BY <1>1, Invariant, PTL

\* A buffer that datMap filled for reading shows what the object holds while
\* its thread keeps a lock and does not itself change the data.
THEOREM ReadMappingsCurrent == Spec => []ReadMappingCurrent
<1>1. IInv => ReadMappingCurrent
  BY DEF IInv, SinceJustified, ReadMappingCurrent
<1> QED
  BY <1>1, Invariant, PTL

\* datUnmap and datAnnul store the buffer of a WRITE or UPDATE mapping whose
\* thread has kept its read-write lock.
THEOREM KeptMappingsStored == Spec => KeptMappingStored
<1>1. ASSUME IInv, [Next]_vars, NEW t \in Thread, NEW l \in Loc,
             since[l] = t, loc[l].mode \in Writing, Unmap(t, l) \/ Annul(t, l)
      PROVE  Part(Stored', loc[l].sel) = loc[l].buf
  <2> DEFINE b == loc[l].buf
             d == data[linked]
  <2>1. Justified(l) /\ since[l] # NoThread
    BY <1>1, SinceAll, MappingAssumption DEF IInv
  <2>2. /\ Live(l) /\ wr = {t} /\ loc[l].ds = linked /\ intent = "RDWR"
        /\ DOMAIN b = loc[l].sel /\ ~loc[l].scalar /\ ~loc[l].trueMmap
    BY <1>1, <2>1 DEF Justified, Holds, IInv, TypeOK, Writing
  <2>3. CopiedBack(t, l)
    BY <1>1, <2>2 DEF CopiedBack, UnmapAllowed, PutSucceeds, Usable, Holds
  <2>4. CopyBack(t, l) /\ linked' = linked
    BY <1>1 DEF Unmap, Annul
  <2>5. linked \in Dataset /\ d \in [Cell -> Value] \cup {Unset} /\ b \in Buffer
    BY <1>1 DEF IInv, TypeOK, Locator
  <2>6. data' = [data EXCEPT ![linked] = Overwrite(d, b)]
    BY <2>2, <2>3, <2>4 DEF CopyBack
  <2>7. Stored' = Overwrite(d, b)
    BY <1>1, <2>4, <2>5, <2>6 DEF Stored, IInv, TypeOK
  <2>8. Part(Overwrite(d, b), DOMAIN b) = b
    BY <2>5, OverwriteOk
  <2> QED
    BY <2>2, <2>7, <2>8
<1>2. IInv /\ [Next]_vars =>
        [\A t \in Thread, l \in Loc :
           (/\ since[l] = t /\ loc[l].mode \in Writing
            /\ Unmap(t, l) \/ Annul(t, l))
              => Part(Stored', loc[l].sel) = loc[l].buf]_vars
  BY <1>1
<1> QED
  BY <1>2, Invariant, PTL DEF Spec, KeptMappingStored

-----------------------------------------------------------------------------
(* Refinement *)

\* A lock call is a lock call of the abstract array.
LEMMA LockSimulates ==
    ASSUME IInv, NEW t \in Thread, Lock(t)
    PROVE  Abstract!Next
<1>1. Stored' = Stored
  BY DEF Lock, LockRead, LockWrite, Unlock, Stored
<1>2. CASE LockRead(t)
  <2>1. Abstract!Locks!ReadLock(t, {Abstract!Prim})
    BY <1>2 DEF LockRead, Abstract!Locks!ReadLock, Abstract!Locks!MayRead
  <2> QED
    BY <1>1, <2>1 DEF Abstract!ChangeLock, Abstract!Next
<1>3. CASE LockWrite(t)
  <2>1. Abstract!Locks!WriteLock(t, {Abstract!Prim})
    BY <1>3 DEF LockWrite, Abstract!Locks!WriteLock, Abstract!Locks!MayWrite
  <2> QED
    BY <1>1, <2>1 DEF Abstract!ChangeLock, Abstract!Next
<1>4. CASE Unlock(t)
  <2>1. Abstract!Locks!Release(t, {Abstract!Prim})
    BY <1>4 DEF Unlock, Abstract!Locks!Release
  <2> QED
    BY <1>1, <2>1 DEF Abstract!ChangeLock, Abstract!Next
<1> QED
  BY <1>2, <1>3, <1>4 DEF Lock

\* Writing into a dataset is a write of the abstract array if the dataset is
\* the linked one, and invisible otherwise.
LEMMA WriteSimulates ==
    ASSUME IInv, NEW t \in Thread, NEW d \in Dataset, NEW b \in Buffer,
           wr = {t}, data' = [data EXCEPT ![d] = Overwrite(@, b)],
           UNCHANGED <<linked, lockVars>>
    PROVE  Abstract!Next \/ UNCHANGED Abstract!arrayVars
<1>1. CASE d = linked
  <2>1. Overwrite(data[d], b) \in [Cell -> Value]
    BY OverwriteOk DEF IInv, TypeOK
  <2>2. Stored' = Overwrite(data[d], b)
    BY <1>1 DEF Stored, IInv, TypeOK
  <2> QED
    BY <2>1, <2>2 DEF Abstract!Write, Abstract!Next, lockVars
<1>2. CASE d # linked
  BY <1>2 DEF Stored, IInv, TypeOK, Abstract!arrayVars, lockVars
<1> QED
  BY <1>1, <1>2

\* Every step is one of the abstract array, or changes nothing there.
LEMMA StepSimulates ==
    ASSUME IInv, [Next]_vars
    PROVE  Abstract!Next \/ UNCHANGED Abstract!arrayVars
<1> USE DEF Abstract!arrayVars
<1>1. ASSUME UNCHANGED <<linked, data, lockVars>>
      PROVE  UNCHANGED Abstract!arrayVars
  BY <1>1 DEF Stored, lockVars
<1>2. ASSUME NEW t \in Thread, Lock(t) PROVE Abstract!Next
  BY <1>2, LockSimulates
<1>3. ASSUME NEW t \in Thread, Derive(t) PROVE UNCHANGED Abstract!arrayVars
  BY <1>1, <1>3 DEF Derive, Clone, Slice
<1>4. ASSUME NEW t \in Thread, NEW l \in Loc, NEW b \in [loc[l].sel -> Value], Put(t, l, b)
      PROVE  Abstract!Next \/ UNCHANGED Abstract!arrayVars
  <2>1. wr = {t} /\ loc[l].ds \in Dataset /\ b \in Buffer
    BY <1>4, PutFacts, BufferOk DEF Put, IInv, TypeOK, Locator
  <2> QED
    BY <1>4, <2>1, WriteSimulates DEF Put
<1>5. ASSUME NEW t \in Thread, NEW l \in Loc, Reset(t, l)
      PROVE  Abstract!Next \/ UNCHANGED Abstract!arrayVars
  <2>1. wr = {t} /\ wr' = wr /\ rd' = rd
    BY <1>5 DEF Reset, Usable, Holds, lockVars
  <2>2. Stored' \in [Cell -> Value] \cup {Unset}
    BY <1>5, ResetInv DEF IInv, TypeOK, Stored
  <2> QED
    BY <2>1, <2>2 DEF Abstract!Write, Abstract!Clear, Abstract!Next
<1>6. ASSUME NEW t \in Thread, NEW l \in Loc, Unmap(t, l) \/ Annul(t, l)
      PROVE  Abstract!Next \/ UNCHANGED Abstract!arrayVars
  <2>1. CopyBack(t, l) /\ UNCHANGED <<linked, lockVars>>
    BY <1>6 DEF Unmap, Annul
  <2>2. CASE CopiedBack(t, l)
    BY <2>1, <2>2, CopyBackFacts, WriteSimulates
  <2>3. CASE ~CopiedBack(t, l)
    BY <1>1, <2>1, <2>3, CopyBackFacts
  <2> QED
    BY <2>2, <2>3
<1>7. ASSUME NEW t \in Thread, NEW l \in Loc,
             NEW mode \in {"READ"} \cup Writing,
             NEW direct \in BOOLEAN, NEW scalar \in BOOLEAN,
             Map(t, l, mode, direct, scalar)
      PROVE  UNCHANGED Abstract!arrayVars
  BY <1>1, <1>7 DEF Map
<1>8. ASSUME NEW t \in Thread, Store(t) \/ UseMapping(t)
      PROVE  Abstract!Next \/ UNCHANGED Abstract!arrayVars
  BY <1>4, <1>5, <1>6, <1>7, <1>8 DEF Store, UseMapping
<1>9. ASSUME \/ \E l \in Loc : Find(l) \/ \E c \in Cell, v \in Value : Modify(l, c, v)
             \/ Reopen
             \/ UNCHANGED vars
      PROVE  UNCHANGED Abstract!arrayVars
  BY <1>1, <1>9 DEF Find, Modify, Reopen, vars, lockVars
<1>10. CASE \E t \in Thread : Lock(t) \/ Derive(t) \/ Store(t) \/ UseMapping(t)
  BY <1>2, <1>3, <1>8, <1>10
<1>11. CASE \/ \E l \in Loc : Find(l) \/ \E c \in Cell, v \in Value : Modify(l, c, v)
            \/ Reopen
            \/ UNCHANGED vars
  BY <1>9, <1>11
<1> QED
  BY <1>10, <1>11 DEF Next

\* Mapping, copying back, reopening and resetting keep the promise that only
\* the thread with the read-write lock changes what the object holds.
THEOREM MappingImplementsStoredArray == Spec => ImplementsStoredArray
<1>1. Init => Abstract!Init
  <2> SUFFICES ASSUME Init PROVE Abstract!Init
    OBVIOUS
  <2>1. Stored \in [Cell -> Value] \cup {Unset}
    BY InitInv DEF IInv, TypeOK, Stored
  <2> QED
    BY <2>1 DEF Init, Abstract!Init
<1>2. IInv /\ [Next]_vars => [Abstract!Next]_(Abstract!arrayVars)
  BY StepSimulates
<1> QED
  BY <1>1, <1>2, Invariant, PTL DEF Spec, Abstract!Spec, ImplementsStoredArray

-----------------------------------------------------------------------------
(* Trees *)

\* The node above y in t is one of t.
HasUp(t, y) == t[y].up \in DOMAIN t

\* A tree has no circles: its nodes have numbers that grow from the top down.
RankedBy(t, r) ==
    r \in [DOMAIN t -> Nat] /\ \A y \in DOMAIN t : HasUp(t, y) => r[t[y].up] < r[y]
Ranked(t) == \E r : RankedBy(t, r)

\* f is the chain of each node of t that has a number below n.
ChainTo(t, r, n, f) ==
    \A y \in DOMAIN t : r[y] < n =>
        f[y] = IF HasUp(t, y) THEN Append(f[t[y].up], y) ELSE <<y>>

\* A set of numbers that has n + 1 if it has n, and 0, is that of all numbers.
LEMMA AllNumbers ==
    ASSUME NEW S \in SUBSET Nat, 0 \in S, \A n \in Nat : n \in S => n + 1 \in S
    PROVE  \A n \in Nat : n \in S
<1> SUFFICES ASSUME NEW n \in Nat, n \notin S PROVE FALSE
  OBVIOUS
<1>1. PICK k \in Nat \ S : \A m \in Nat \ S : k <= m
  BY LeastElement
<1>2. k # 0 /\ k - 1 \in Nat
  BY <1>1
<1>3. k - 1 \in S
  BY <1>1, <1>2
<1> QED
  BY <1>1, <1>2, <1>3

\* What holds of a node if it holds of the one above it, if there is one, holds
\* of all.
LEMMA FromAbove ==
    ASSUME NEW t, Ranked(t), NEW S,
           \A y \in DOMAIN t : (HasUp(t, y) => t[y].up \in S) => y \in S
    PROVE  DOMAIN t \subseteq S
<1>1. PICK r : RankedBy(t, r)
  BY DEF Ranked
<1> SUFFICES ASSUME NEW x \in DOMAIN t, x \notin S PROVE FALSE
  OBVIOUS
<1> DEFINE T == {r[y] : y \in DOMAIN t \ S}
<1>2. T \in SUBSET Nat /\ T # {}
  BY <1>1 DEF RankedBy
<1>3. PICK k \in T : \A m \in T : k <= m
  BY <1>2, LeastElement
<1>4. PICK y \in DOMAIN t \ S : k = r[y]
  BY <1>3
<1>5. HasUp(t, y) /\ t[y].up \notin S
  BY <1>4
<1>6. r[t[y].up] \in T /\ r[t[y].up] < r[y] /\ r[t[y].up] \in Nat /\ r[y] \in Nat
  BY <1>1, <1>4, <1>5 DEF RankedBy, HasUp
<1> QED
  BY <1>3, <1>4, <1>6

\* Chains exist: they are built node by node, from the top down.
LEMMA ChainsTo ==
    ASSUME NEW t, NEW r, RankedBy(t, r)
    PROVE  \A n \in Nat : \E f : f = [y \in DOMAIN t |-> f[y]] /\ ChainTo(t, r, n, f)
<1> DEFINE S == {n \in Nat : \E f : f = [y \in DOMAIN t |-> f[y]] /\ ChainTo(t, r, n, f)}
<1>1. 0 \in S
  <2> DEFINE f == [y \in DOMAIN t |-> <<y>>]
  <2>1. ChainTo(t, r, 0, f)
    BY DEF ChainTo, RankedBy
  <2> QED
    BY <2>1
<1>2. ASSUME NEW n \in Nat, n \in S PROVE n + 1 \in S
  <2>1. PICK f : f = [y \in DOMAIN t |-> f[y]] /\ ChainTo(t, r, n, f)
    BY <1>2
  <2> DEFINE g == [y \in DOMAIN t |->
                     IF r[y] < n THEN f[y]
                     ELSE IF HasUp(t, y) THEN Append(f[t[y].up], y) ELSE <<y>>]
  <2>2. ASSUME NEW y \in DOMAIN t, r[y] < n + 1
        PROVE  g[y] = IF HasUp(t, y) THEN Append(g[t[y].up], y) ELSE <<y>>
    <3>1. HasUp(t, y) => r[t[y].up] < n /\ t[y].up \in DOMAIN t
      BY <2>2 DEF RankedBy, HasUp
    <3>2. HasUp(t, y) => g[t[y].up] = f[t[y].up]
      BY <3>1
    <3> QED
      BY <2>1, <3>2 DEF ChainTo
  <2>3. ChainTo(t, r, n + 1, g)
    <3> HIDE DEF g
    <3> QED
      BY <2>2 DEF ChainTo
  <2> QED
    BY <2>3
<1> HIDE DEF S
<1>3. S \in SUBSET Nat
  BY DEF S
<1>4. \A n \in Nat : n \in S
  BY <1>1, <1>2, <1>3, AllNumbers
<1> QED
  BY <1>4 DEF S

\* They are the same wherever two of them reach.
LEMMA ChainsAgree ==
    ASSUME NEW t, NEW r, RankedBy(t, r), NEW n \in Nat, NEW m \in Nat, NEW f, NEW g,
           ChainTo(t, r, n, f), ChainTo(t, r, m, g)
    PROVE  \A y \in DOMAIN t : r[y] < n /\ r[y] < m => f[y] = g[y]
<1> DEFINE S == {y \in DOMAIN t : r[y] < n /\ r[y] < m => f[y] = g[y]}
<1>1. ASSUME NEW y \in DOMAIN t, HasUp(t, y) => t[y].up \in S PROVE y \in S
  <2> SUFFICES ASSUME r[y] < n, r[y] < m PROVE f[y] = g[y]
    OBVIOUS
  <2>1. /\ f[y] = IF HasUp(t, y) THEN Append(f[t[y].up], y) ELSE <<y>>
        /\ g[y] = IF HasUp(t, y) THEN Append(g[t[y].up], y) ELSE <<y>>
    BY DEF ChainTo
  <2>2. HasUp(t, y) => r[t[y].up] < n /\ r[t[y].up] < m
    BY DEF RankedBy, HasUp
  <2> QED
    BY <1>1, <2>1, <2>2
<1>2. Ranked(t)
  BY DEF Ranked
<1> HIDE DEF S
<1>3. DOMAIN t \subseteq S
  BY <1>1, <1>2, FromAbove
<1> QED
  BY <1>3 DEF S

\* So Chain is what its definition says.
LEMMA ChainDef ==
    ASSUME NEW t, Ranked(t)
    PROVE  \A y \in DOMAIN t :
              Chain(t, y) = IF HasUp(t, y) THEN Append(Chain(t, t[y].up), y) ELSE <<y>>
<1>1. PICK r : RankedBy(t, r)
  BY DEF Ranked
<1> DEFINE To(n) == CHOOSE f : f = [y \in DOMAIN t |-> f[y]] /\ ChainTo(t, r, n, f)
           F == [y \in DOMAIN t |-> To(r[y] + 1)[y]]
<1>2. \A n \in Nat : ChainTo(t, r, n, To(n))
  BY <1>1, ChainsTo
<1>3. ASSUME NEW y \in DOMAIN t
      PROVE  F[y] = IF HasUp(t, y) THEN Append(F[t[y].up], y) ELSE <<y>>
  <2>1. r[y] + 1 \in Nat /\ r[y] < r[y] + 1
    BY <1>1 DEF RankedBy
  <2>2. To(r[y] + 1)[y] = IF HasUp(t, y) THEN Append(To(r[y] + 1)[t[y].up], y) ELSE <<y>>
    BY <1>2, <2>1 DEF ChainTo
  <2>3. ASSUME HasUp(t, y) PROVE To(r[y] + 1)[t[y].up] = F[t[y].up]
    <3>1. t[y].up \in DOMAIN t /\ r[t[y].up] + 1 \in Nat
      BY <1>1, <2>3 DEF RankedBy, HasUp
    <3>2. r[t[y].up] < r[t[y].up] + 1 /\ r[t[y].up] < r[y] + 1
      BY <1>1, <2>1, <2>3, <3>1 DEF RankedBy
    <3>3. ChainTo(t, r, r[y] + 1, To(r[y] + 1)) /\ ChainTo(t, r, r[t[y].up] + 1, To(r[t[y].up] + 1))
      BY <1>2, <2>1, <3>1
    <3> HIDE DEF To
    <3> QED
      BY <1>1, <2>1, <3>1, <3>2, <3>3, ChainsAgree
  <2> QED
    BY <2>2, <2>3
<1> DEFINE chain == CHOOSE c : c = [y \in DOMAIN t |->
                        IF t[y].up \in DOMAIN t THEN Append(c[t[y].up], y) ELSE <<y>>]
<1>4. F = [y \in DOMAIN t |-> IF t[y].up \in DOMAIN t THEN Append(F[t[y].up], y) ELSE <<y>>]
  <2>1. F = [y \in DOMAIN t |-> F[y]]
    OBVIOUS
  <2> HIDE DEF F
  <2> QED
    BY <1>3, <2>1 DEF HasUp
<1>5. chain = [y \in DOMAIN t |-> IF t[y].up \in DOMAIN t THEN Append(chain[t[y].up], y) ELSE <<y>>]
  <2> HIDE DEF F
  <2> QED
    BY <1>4
<1>6. \A x : Chain(t, x) = chain[x]
  BY DEF Chain
<1> HIDE DEF chain
<1> QED
  BY <1>5, <1>6 DEF HasUp

\* A chain goes from node to node.
LEMMA ChainOk ==
    ASSUME NEW t, Ranked(t)
    PROVE  \A y \in DOMAIN t : Chain(t, y) \in Seq(DOMAIN t) /\ Chain(t, y) # <<>>
<1> DEFINE S == {y \in DOMAIN t : Chain(t, y) \in Seq(DOMAIN t) /\ Chain(t, y) # <<>>}
<1>1. ASSUME NEW y \in DOMAIN t, HasUp(t, y) => t[y].up \in S PROVE y \in S
  <2>1. CASE HasUp(t, y)
    <3>1. PICK c : c = Chain(t, t[y].up)
      OBVIOUS
    <3>2. c \in Seq(DOMAIN t) /\ Chain(t, y) = Append(c, y)
      BY <1>1, <2>1, <3>1, ChainDef
    <3>3. Append(c, y) \in Seq(DOMAIN t) /\ Append(c, y) # <<>>
      BY <3>2
    <3> QED
      BY <3>2, <3>3
  <2>2. CASE ~HasUp(t, y)
    <3>1. Chain(t, y) = <<y>>
      BY <2>2, ChainDef
    <3>2. <<y>> \in Seq(DOMAIN t) /\ <<y>> # <<>>
      OBVIOUS
    <3> QED
      BY <3>1, <3>2
  <2> QED
    BY <2>1, <2>2
<1> HIDE DEF S
<1>2. DOMAIN t \subseteq S
  BY <1>1, FromAbove
<1> QED
  BY <1>2 DEF S

\* The chain d is the chain c with y below it, or is y alone.
Longer(d, c, y) == d = Append(c, y)
Alone(d, y) == d = <<y>>

\* What a chain with one node more holds, and one with only one.
LEMMA ChainMore ==
    ASSUME NEW T, NEW c \in Seq(T), NEW y \in T, NEW d, Longer(d, c, y)
    PROVE  /\ \A z : z \in ToSet(d) <=> z \in ToSet(c) \/ z = y
           /\ c # <<>> => d[1] = c[1]
<1>0. d = Append(c, y)
  BY DEF Longer
<1>1. /\ Len(d) = Len(c) + 1 /\ Len(c) \in Nat
      /\ \A i \in 1..Len(c) : d[i] = c[i]
      /\ d[Len(c) + 1] = y
  BY <1>0
<1>2. DOMAIN c = 1..Len(c) /\ DOMAIN d = 1..(Len(c) + 1)
  BY <1>1
<1>3. ToSet(d) = ToSet(c) \cup {y}
  <2>1. ASSUME NEW z \in ToSet(d) PROVE z \in ToSet(c) \cup {y}
    <3>1. PICK i \in 1..(Len(c) + 1) : z = d[i]
      BY <1>2, <2>1 DEF ToSet
    <3> QED
      BY <1>1, <1>2, <3>1 DEF ToSet
  <2>2. ASSUME NEW z \in ToSet(c) PROVE z \in ToSet(d)
    <3>1. PICK i \in 1..Len(c) : z = c[i]
      BY <1>2, <2>2 DEF ToSet
    <3>2. i \in 1..(Len(c) + 1) /\ d[i] = z
      BY <1>1, <3>1
    <3> QED
      BY <1>2, <3>2 DEF ToSet
  <2>3. y \in ToSet(d)
    <3>1. Len(c) + 1 \in 1..(Len(c) + 1)
      BY <1>1
    <3> QED
      BY <1>1, <1>2, <3>1 DEF ToSet
  <2> QED
    BY <2>1, <2>2, <2>3
<1>4. c # <<>> => 1 \in 1..Len(c)
  BY <1>1
<1> QED
  BY <1>1, <1>3, <1>4

LEMMA ChainAlone ==
    ASSUME NEW y, NEW d, Alone(d, y)
    PROVE  (\A z : z \in ToSet(d) <=> z = y) /\ d[1] = y
BY DEF Alone, ToSet


\* What is below x: x, and what has a node above it that is below x.
LEMMA BelowDef ==
    ASSUME NEW t, Ranked(t), NEW x
    PROVE  /\ Below(t, x) \subseteq DOMAIN t
           /\ \A y \in DOMAIN t :
                 y \in Below(t, x) <=> y = x \/ (HasUp(t, y) /\ t[y].up \in Below(t, x))
<1> SUFFICES ASSUME NEW y \in DOMAIN t
             PROVE  y \in Below(t, x) <=> y = x \/ (HasUp(t, y) /\ t[y].up \in Below(t, x))
  BY DEF Below
<1>1. CASE HasUp(t, y)
  <2> DEFINE u == t[y].up
  <2>1. u \in DOMAIN t /\ Longer(Chain(t, y), Chain(t, u), y) /\ Chain(t, u) \in Seq(DOMAIN t)
    BY <1>1, ChainDef, ChainOk DEF HasUp, Longer
  <2>2. x \in ToSet(Chain(t, y)) <=> x \in ToSet(Chain(t, u)) \/ x = y
    <3> HIDE DEF u
    <3> QED
      BY <2>1, ChainMore
  <2>3. u \in Below(t, x) <=> x \in ToSet(Chain(t, u))
    BY <2>1 DEF Below
  <2>4. y \in Below(t, x) <=> x \in ToSet(Chain(t, y))
    BY DEF Below
  <2> QED
    BY <1>1, <2>2, <2>3, <2>4
<1>2. CASE ~HasUp(t, y)
  <2>1. Alone(Chain(t, y), y)
    BY <1>2, ChainDef DEF Alone
  <2>2. \A z : z \in ToSet(Chain(t, y)) <=> z = y
    BY <2>1, ChainAlone
  <2> QED
    BY <1>2, <2>2 DEF Below
<1> QED
  BY <1>1, <1>2

\* The object x of the tree t is in the hierarchy of a file.
LinkedIn(t, x) == x \in DOMAIN t /\ Chain(t, x)[1] \in Root

\* It is so if the one above it is, or if it is a top-level object.
LEMMA LinkedDef ==
    ASSUME NEW t, Ranked(t)
    PROVE  \A y \in DOMAIN t :
              LinkedIn(t, y) <=> IF HasUp(t, y) THEN LinkedIn(t, t[y].up) ELSE y \in Root
<1> SUFFICES ASSUME NEW y \in DOMAIN t
             PROVE  LinkedIn(t, y) <=> IF HasUp(t, y) THEN LinkedIn(t, t[y].up) ELSE y \in Root
  OBVIOUS
<1>1. CASE HasUp(t, y)
  <2> DEFINE u == t[y].up
  <2>1. u \in DOMAIN t /\ Longer(Chain(t, y), Chain(t, u), y)
    BY <1>1, ChainDef DEF HasUp, Longer
  <2>2. Chain(t, u) \in Seq(DOMAIN t) /\ Chain(t, u) # <<>>
    BY <2>1, ChainOk
  <2>3. Chain(t, y)[1] = Chain(t, u)[1]
    BY <2>1, <2>2, ChainMore
  <2> QED
    BY <1>1, <2>1, <2>3 DEF LinkedIn
<1>2. CASE ~HasUp(t, y)
  <2>1. Chain(t, y)[1] = y
    BY <1>2, ChainDef
  <2> QED
    BY <1>2, <2>1 DEF LinkedIn
<1> QED
  BY <1>1, <1>2

\* And this is the only set of objects of which that can be said.
LEMMA LinkedOnly ==
    ASSUME NEW t, Ranked(t), NEW L,
           \A y \in DOMAIN t : y \in L <=> IF HasUp(t, y) THEN t[y].up \in L ELSE y \in Root
    PROVE  \A y \in DOMAIN t : LinkedIn(t, y) <=> y \in L
<1> DEFINE S == {y \in DOMAIN t : LinkedIn(t, y) <=> y \in L}
<1>1. ASSUME NEW y \in DOMAIN t, HasUp(t, y) => t[y].up \in S PROVE y \in S
  BY <1>1, LinkedDef
<1> HIDE DEF S
<1>2. DOMAIN t \subseteq S
  BY <1>1, FromAbove
<1> QED
  BY <1>2 DEF S

\* The same for what is below x.
LEMMA BelowOnly ==
    ASSUME NEW t, Ranked(t), NEW x, NEW B,
           \A y \in DOMAIN t : y \in B <=> y = x \/ (HasUp(t, y) /\ t[y].up \in B)
    PROVE  \A y \in DOMAIN t : y \in Below(t, x) <=> y \in B
<1> DEFINE S == {y \in DOMAIN t : y \in Below(t, x) <=> y \in B}
<1>1. ASSUME NEW y \in DOMAIN t, HasUp(t, y) => t[y].up \in S PROVE y \in S
  BY <1>1, BelowDef
<1> HIDE DEF S
<1>2. DOMAIN t \subseteq S
  BY <1>1, FromAbove
<1> QED
  BY <1>2 DEF S

-----------------------------------------------------------------------------
(* What changes a tree *)

\* No two nodes in one node have the same name.
Siblings(t) ==
    \A y, z \in DOMAIN t :
        HasUp(t, y) /\ t[z].up = t[y].up /\ t[z].name = t[y].name => y = z

\* t is a tree with nodes among 1..N and the top-level objects on top.
TreeOk(t, N) ==
    /\ DOMAIN t \subseteq 1..N
    /\ Root \subseteq DOMAIN t
    /\ \A x \in Root : t[x].up = None
    /\ \A y \in DOMAIN t : t[y].up \in DOMAIN t \cup {None}
    /\ Ranked(t)
    /\ Siblings(t)

\* A top-level object is in the hierarchy, and in no other object.
LEMMA RootsOnTop ==
    ASSUME NEW N \in Nat, NEW t, TreeOk(t, N)
    PROVE  /\ None \notin DOMAIN t
           /\ \A x \in Root : x \in DOMAIN t /\ ~HasUp(t, x) /\ LinkedIn(t, x)
<1>1. None \notin DOMAIN t
  BY DEF TreeOk, None
<1>2. \A x \in Root : x \in DOMAIN t /\ ~HasUp(t, x)
  BY <1>1 DEF TreeOk, HasUp
<1>3. Ranked(t)
  BY DEF TreeOk
<1> QED
  BY <1>1, <1>2, <1>3, LinkedDef

\* The nodes of t are in the hierarchy in u if they are in t.
SameLinks(u, t) == \A y \in DOMAIN t : LinkedIn(u, y) <=> LinkedIn(t, y)

\* u is t with a node x more, called n, in p.
GrownBy(u, t, x, p, n) ==
    /\ DOMAIN u = DOMAIN t \cup {x} /\ \A y \in DOMAIN t : u[y] = t[y]
    /\ u[x].up = p /\ u[x].name = n

LEMMA GrownTree ==
    ASSUME NEW N \in Nat, NEW t, TreeOk(t, N), NEW x \in 1..N, x \notin DOMAIN t,
           NEW p \in DOMAIN t, NEW n, Child(t, p, n) = {},
           NEW u, GrownBy(u, t, x, p, n)
    PROVE  TreeOk(u, N) /\ SameLinks(u, t)
<1> USE DEF GrownBy
<1>1. /\ \A y \in DOMAIN t : t[y].up # x
      /\ \A y \in DOMAIN t : HasUp(u, y) <=> HasUp(t, y)
      /\ HasUp(u, x) /\ x # p
  <2>1. x # None
    BY DEF None
  <2> QED
    BY <2>1 DEF TreeOk, HasUp
<1>2. PICK r : RankedBy(t, r)
  BY DEF TreeOk, Ranked
<1>3. Ranked(u)
  <2> DEFINE q == [y \in DOMAIN u |-> IF y = x THEN r[p] + 1 ELSE r[y]]
  <2>1. q \in [DOMAIN u -> Nat]
    BY <1>2 DEF RankedBy
  <2>2. ASSUME NEW y \in DOMAIN t, HasUp(u, y) PROVE q[u[y].up] < q[y]
    <3>1. t[y].up \in DOMAIN t /\ r[t[y].up] < r[y] /\ u[y].up = t[y].up
      BY <1>1, <1>2, <2>2 DEF RankedBy, HasUp
    <3> QED
      BY <3>1
  <2>3. q[u[x].up] < q[x]
    BY <1>1, <1>2 DEF RankedBy
  <2> HIDE DEF q
  <2>4. RankedBy(u, q)
    BY <2>1, <2>2, <2>3 DEF RankedBy
  <2> QED
    BY <2>4 DEF Ranked
<1>4. Siblings(u)
  <2> SUFFICES ASSUME NEW y \in DOMAIN u, NEW z \in DOMAIN u,
                      HasUp(u, y), u[z].up = u[y].up, u[z].name = u[y].name
               PROVE  y = z
    BY DEF Siblings
  <2>1. CASE y \in DOMAIN t /\ z \in DOMAIN t
    BY <1>1, <2>1 DEF TreeOk, Siblings
  <2>2. \A w \in DOMAIN t : t[w].up = p => t[w].name # n
    BY DEF Child
  <2> QED
    BY <2>1, <2>2
<1>5. TreeOk(u, N)
  BY <1>1, <1>3, <1>4 DEF TreeOk
<1> DEFINE L == {y \in DOMAIN t : LinkedIn(t, y)} \cup (IF LinkedIn(t, p) THEN {x} ELSE {})
<1>6. \A y \in DOMAIN t : LinkedIn(t, y) <=> IF HasUp(t, y) THEN LinkedIn(t, t[y].up) ELSE y \in Root
  BY LinkedDef DEF TreeOk
<1>7. ASSUME NEW y \in DOMAIN u PROVE y \in L <=> IF HasUp(u, y) THEN u[y].up \in L ELSE y \in Root
  <2>1. CASE y = x
    BY <1>1, <2>1
  <2>2. CASE y \in DOMAIN t
    BY <1>1, <1>6, <2>2 DEF HasUp
  <2> QED
    BY <2>1, <2>2
<1> HIDE DEF L
<1>8. \A y \in DOMAIN u : LinkedIn(u, y) <=> y \in L
  BY <1>3, <1>7, LinkedOnly
<1> QED
  BY <1>5, <1>8 DEF L, SameLinks

\* u is t without the nodes that are not in K; what was in them is loose.
Pruned(u, t, K) ==
    /\ DOMAIN u = K
    /\ \A y \in K : /\ u[y].name = t[y].name
                    /\ u[y].up = IF t[y].up \in K THEN t[y].up ELSE None

\* The nodes of the hierarchy are in u where they are in t.
SameHierarchy(u, t) ==
    \A y \in DOMAIN u : /\ LinkedIn(u, y) <=> LinkedIn(t, y)
                        /\ LinkedIn(t, y) => u[y].up = t[y].up

LEMMA PrunedTree ==
    ASSUME NEW N \in Nat, NEW t, TreeOk(t, N), NEW K \in SUBSET DOMAIN t, Root \subseteq K,
           NEW u, Pruned(u, t, K)
    PROVE  /\ TreeOk(u, N)
           /\ (\A y \in DOMAIN t : LinkedIn(t, y) => y \in K) => SameHierarchy(u, t)
<1> USE DEF Pruned
<1>1. None \notin K
  BY RootsOnTop
<1>2. \A y \in K : HasUp(u, y) <=> t[y].up \in K
  BY <1>1 DEF HasUp
<1>3. Ranked(u)
  <2>1. PICK r : RankedBy(t, r)
    BY DEF TreeOk, Ranked
  <2> DEFINE q == [y \in K |-> r[y]]
  <2>2. RankedBy(u, q)
    BY <1>2, <2>1 DEF RankedBy, HasUp
  <2> QED
    BY <2>2 DEF Ranked
<1>4. Siblings(u)
  BY <1>1, <1>2 DEF TreeOk, Siblings, HasUp
<1>5. TreeOk(u, N)
  <2>1. \A x \in Root : u[x].up = None
    BY DEF TreeOk
  <2> QED
    BY <1>3, <1>4, <2>1 DEF TreeOk
<1>6. ASSUME \A y \in DOMAIN t : LinkedIn(t, y) => y \in K
      PROVE  \A y \in K : /\ LinkedIn(u, y) <=> LinkedIn(t, y)
                          /\ LinkedIn(t, y) => u[y].up = t[y].up
  <2>1. \A y \in DOMAIN t : LinkedIn(t, y) <=> IF HasUp(t, y) THEN LinkedIn(t, t[y].up) ELSE y \in Root
    BY LinkedDef DEF TreeOk
  <2> DEFINE L == {y \in DOMAIN t : LinkedIn(t, y)}
  <2>2. ASSUME NEW y \in K PROVE y \in L <=> IF HasUp(u, y) THEN u[y].up \in L ELSE y \in Root
    <3>1. CASE t[y].up \in K
      BY <1>2, <2>1, <3>1 DEF HasUp
    <3>2. CASE t[y].up \notin K
      <4>1. HasUp(t, y) => t[y].up \notin L
        BY <1>6, <3>2
      <4>2. ~HasUp(u, y)
        BY <1>2, <3>2
      <4>3. HasUp(t, y) => y \notin Root
        BY RootsOnTop
      <4> QED
        BY <2>1, <4>1, <4>2, <4>3 DEF HasUp
    <3> QED
      BY <3>1, <3>2
  <2> HIDE DEF L
  <2>3. \A y \in K : LinkedIn(u, y) <=> y \in L
    BY <1>3, <2>2, LinkedOnly
  <2>4. ASSUME NEW y \in K, LinkedIn(t, y) PROVE u[y].up = t[y].up
    <3>1. CASE HasUp(t, y)
      BY <1>6, <2>1, <2>4, <3>1 DEF HasUp
    <3>2. CASE ~HasUp(t, y)
      BY <3>2 DEF TreeOk, HasUp
    <3> QED
      BY <3>1, <3>2
  <2> QED
    BY <2>3, <2>4 DEF L
<1> QED
  BY <1>5, <1>6 DEF SameHierarchy

\* Nodes below x: x is, and whatever has one above it that is; nothing on top
\* but x itself is.
LEMMA BelowOk ==
    ASSUME NEW N \in Nat, NEW t, TreeOk(t, N), NEW x \in DOMAIN t
    PROVE  /\ Below(t, x) \subseteq DOMAIN t
           /\ x \in Below(t, x)
           /\ \A y \in DOMAIN t : HasUp(t, y) /\ t[y].up \in Below(t, x) => y \in Below(t, x)
           /\ \A y \in Below(t, x) : y # x => HasUp(t, y) /\ t[y].up \in Below(t, x)
           /\ \A y \in Root : y \in Below(t, x) => y = x
<1>1. Ranked(t)
  BY DEF TreeOk
<1>2. Below(t, x) \subseteq DOMAIN t
  BY <1>1, BelowDef
<1>3. \A y \in DOMAIN t : y \in Below(t, x) <=> y = x \/ (HasUp(t, y) /\ t[y].up \in Below(t, x))
  BY <1>1, BelowDef
<1> QED
  BY <1>2, <1>3, RootsOnTop

\* u is t with o taken out of where it is.
CutOff(u, t, o) ==
    DOMAIN u = DOMAIN t /\ u[o].up = None /\ \A y \in DOMAIN t \ {o} : u[y] = t[y]

\* The nodes of the hierarchy t are in u, without those below o.
LinksLess(u, t, o) ==
    \A y \in DOMAIN t : LinkedIn(u, y) <=> LinkedIn(t, y) /\ y \notin Below(t, o)

LEMMA CutTree ==
    ASSUME NEW N \in Nat, NEW t, TreeOk(t, N), NEW o \in DOMAIN t \ Root,
           NEW u, CutOff(u, t, o)
    PROVE  TreeOk(u, N) /\ LinksLess(u, t, o)
<1> USE DEF CutOff
<1>1. ~HasUp(u, o) /\ \A y \in DOMAIN t \ {o} : HasUp(u, y) <=> HasUp(t, y)
  BY RootsOnTop DEF HasUp
<1>2. Ranked(u)
  <2>1. PICK r : RankedBy(t, r)
    BY DEF TreeOk, Ranked
  <2>2. RankedBy(u, r)
    BY <1>1, <2>1 DEF RankedBy
  <2> QED
    BY <2>2 DEF Ranked
<1>3. Siblings(u)
  BY <1>1, RootsOnTop DEF TreeOk, Siblings, HasUp
<1>4. TreeOk(u, N)
  BY <1>2, <1>3 DEF TreeOk
<1> DEFINE L == {y \in DOMAIN t : LinkedIn(t, y) /\ y \notin Below(t, o)}
<1>5. /\ \A y \in DOMAIN t : LinkedIn(t, y) <=> IF HasUp(t, y) THEN LinkedIn(t, t[y].up) ELSE y \in Root
      /\ \A y \in DOMAIN t : y \in Below(t, o) <=> y = o \/ (HasUp(t, y) /\ t[y].up \in Below(t, o))
  BY LinkedDef, BelowDef DEF TreeOk
<1>6. ASSUME NEW y \in DOMAIN u PROVE y \in L <=> IF HasUp(u, y) THEN u[y].up \in L ELSE y \in Root
  <2>1. CASE y = o
    BY <1>1, <1>5, <2>1
  <2>2. CASE y # o /\ HasUp(t, y)
    <3>1. u[y].up = t[y].up /\ HasUp(u, y) /\ t[y].up \in DOMAIN t
      BY <1>1, <2>2 DEF HasUp
    <3> QED
      BY <1>5, <2>2, <3>1
  <2>3. CASE y # o /\ ~HasUp(t, y)
    BY <1>1, <1>5, <2>3
  <2> QED
    BY <2>1, <2>2, <2>3
<1> HIDE DEF L
<1>7. \A y \in DOMAIN u : LinkedIn(u, y) <=> y \in L
  BY <1>2, <1>6, LinkedOnly
<1> QED
  BY <1>4, <1>7 DEF L, LinksLess

\* u is t with o moved into p and called n.
MovedInto(u, t, o, p, n) ==
    /\ DOMAIN u = DOMAIN t /\ \A y \in DOMAIN t \ {o} : u[y] = t[y]
    /\ u[o].up = p /\ u[o].name = n

LEMMA MovedTree ==
    ASSUME NEW N \in Nat, NEW t, TreeOk(t, N), NEW o \in DOMAIN t \ Root, LinkedIn(t, o),
           NEW p \in DOMAIN t, p \notin Below(t, o), LinkedIn(t, p),
           NEW n, Child(t, p, n) = {},
           NEW u, MovedInto(u, t, o, p, n)
    PROVE  TreeOk(u, N) /\ SameLinks(u, t)
<1> USE DEF MovedInto
<1>1. /\ HasUp(u, o)
      /\ \A y \in DOMAIN t \ {o} : u[y].up = t[y].up /\ u[y].name = t[y].name
      /\ \A y \in DOMAIN t \ {o} : HasUp(u, y) <=> HasUp(t, y)
  BY DEF HasUp
<1>2. Ranked(u)
  <2>1. PICK r : RankedBy(t, r)
    BY DEF TreeOk, Ranked
  <2> DEFINE q == [y \in DOMAIN u |-> IF y \in Below(t, o) THEN r[y] + r[p] + 1 ELSE r[y]]
  <2>2. /\ o \in Below(t, o)
        /\ \A y \in DOMAIN t \ {o} :
              y \in Below(t, o) <=> HasUp(t, y) /\ t[y].up \in Below(t, o)
    BY BelowDef DEF TreeOk
  <2>3. q \in [DOMAIN u -> Nat]
    BY <2>1 DEF RankedBy
  <2>4. ASSUME NEW y \in DOMAIN t \ {o}, HasUp(u, y) PROVE q[u[y].up] < q[y]
    <3>1. /\ u[y].up = t[y].up /\ t[y].up \in DOMAIN t /\ HasUp(t, y)
          /\ r[t[y].up] < r[y] /\ r[t[y].up] \in Nat /\ r[y] \in Nat /\ r[p] \in Nat
      BY <1>1, <2>1, <2>4 DEF RankedBy, HasUp
    <3>2. y \in Below(t, o) <=> t[y].up \in Below(t, o)
      BY <2>2, <3>1
    <3> QED
      BY <3>1, <3>2
  <2>5. q[u[o].up] < q[o]
    <3>1. r[o] \in Nat /\ r[p] \in Nat
      BY <2>1 DEF RankedBy
    <3> QED
      BY <2>2, <3>1
  <2> HIDE DEF q
  <2>6. RankedBy(u, q)
    BY <2>3, <2>4, <2>5 DEF RankedBy
  <2> QED
    BY <2>6 DEF Ranked
<1>3. Siblings(u)
  <2> SUFFICES ASSUME NEW y \in DOMAIN u, NEW z \in DOMAIN u,
                      HasUp(u, y), u[z].up = u[y].up, u[z].name = u[y].name
               PROVE  y = z
    BY DEF Siblings
  <2>1. \A w \in DOMAIN t : t[w].up = p => t[w].name # n
    BY DEF Child
  <2>2. CASE y # o /\ z # o
    BY <1>1, <2>2 DEF TreeOk, Siblings
  <2> QED
    BY <1>1, <2>1, <2>2
<1>4. TreeOk(u, N)
  <2>1. \A y \in DOMAIN t : u[y].up \in DOMAIN t \cup {None}
    BY <1>1 DEF TreeOk
  <2> QED
    BY <1>1, <1>2, <1>3, <2>1 DEF TreeOk
<1>5. \A y \in DOMAIN t : LinkedIn(t, y) <=> IF HasUp(t, y) THEN LinkedIn(t, t[y].up) ELSE y \in Root
  BY LinkedDef DEF TreeOk
<1> DEFINE L == {y \in DOMAIN t : LinkedIn(t, y)}
<1>6. ASSUME NEW y \in DOMAIN u PROVE y \in L <=> IF HasUp(u, y) THEN u[y].up \in L ELSE y \in Root
  <2>1. CASE y = o
    BY <1>1, <2>1
  <2>2. CASE y # o
    BY <1>1, <1>5, <2>2 DEF HasUp
  <2> QED
    BY <2>1, <2>2
<1> HIDE DEF L
<1>7. \A y \in DOMAIN u : LinkedIn(u, y) <=> y \in L
  BY <1>2, <1>6, LinkedOnly
<1> QED
  BY <1>4, <1>7 DEF L, SameLinks

\* u is t with o called n.
LEMMA RenamedTree ==
    ASSUME NEW N \in Nat, NEW t, TreeOk(t, N), NEW o \in DOMAIN t,
           NEW n, Child(t, t[o].up, n) = {},
           NEW u, MovedInto(u, t, o, t[o].up, n)
    PROVE  TreeOk(u, N) /\ SameLinks(u, t)
<1> USE DEF MovedInto
<1>1. \A y \in DOMAIN t : u[y].up = t[y].up /\ (HasUp(u, y) <=> HasUp(t, y))
  BY DEF HasUp
<1>2. Ranked(u)
  <2>1. PICK r : RankedBy(t, r)
    BY DEF TreeOk, Ranked
  <2>2. RankedBy(u, r)
    BY <1>1, <2>1 DEF RankedBy
  <2> QED
    BY <2>2 DEF Ranked
<1>3. Siblings(u)
  <2> SUFFICES ASSUME NEW y \in DOMAIN u, NEW z \in DOMAIN u,
                      HasUp(u, y), u[z].up = u[y].up, u[z].name = u[y].name
               PROVE  y = z
    BY DEF Siblings
  <2>1. \A w \in DOMAIN t : t[w].up = t[o].up => t[w].name # n
    BY DEF Child
  <2>2. CASE y # o /\ z # o
    BY <1>1, <2>2 DEF TreeOk, Siblings
  <2> QED
    BY <1>1, <2>1, <2>2
<1>4. TreeOk(u, N)
  BY <1>1, <1>2, <1>3 DEF TreeOk
<1>5. \A y \in DOMAIN t : LinkedIn(t, y) <=> IF HasUp(t, y) THEN LinkedIn(t, t[y].up) ELSE y \in Root
  BY LinkedDef DEF TreeOk
<1> DEFINE L == {y \in DOMAIN t : LinkedIn(t, y)}
<1>6. ASSUME NEW y \in DOMAIN u PROVE y \in L <=> IF HasUp(u, y) THEN u[y].up \in L ELSE y \in Root
  BY <1>1, <1>5 DEF HasUp
<1> HIDE DEF L
<1>7. \A y \in DOMAIN u : LinkedIn(u, y) <=> y \in L
  BY <1>2, <1>6, LinkedOnly
<1> QED
  BY <1>4, <1>7 DEF L, SameLinks

\* u is t with a copy of o and of all that is in it put into p and called n;
\* w says which node is the copy of which.
CopyOf(t, o, p, n, w, u) ==
    /\ DOMAIN u = DOMAIN t \cup {w[y] : y \in Below(t, o)}
    /\ \A y \in DOMAIN t : u[y] = t[y]
    /\ u[w[o]].up = p /\ u[w[o]].name = n
    /\ \A y \in Below(t, o) \ {o} : u[w[y]].up = w[t[y].up] /\ u[w[y]].name = t[y].name

\* Then it is a tree, the old nodes are where they were, and so is what is in o.
LEMMA CopiedTree ==
    ASSUME NEW N \in Nat, NEW t, TreeOk(t, N), NEW o \in DOMAIN t,
           NEW p \in DOMAIN t, p \notin Below(t, o), LinkedIn(t, p),
           NEW n, Child(t, p, n) = {},
           NEW w \in [Below(t, o) -> (1..N) \ DOMAIN t], IsInjective(w),
           NEW u, CopyOf(t, o, p, n, w, u)
    PROVE  /\ TreeOk(u, N)
           /\ SameLinks(u, t)
           /\ \A y \in DOMAIN t : y \in Below(u, o) <=> y \in Below(t, o)
<1> DEFINE B == Below(t, o)
           W == {w[y] : y \in B}
<1>1. /\ DOMAIN u = DOMAIN t \cup W /\ \A y \in DOMAIN t : u[y] = t[y]
      /\ u[w[o]].up = p /\ u[w[o]].name = n
      /\ \A y \in B \ {o} : u[w[y]].up = w[t[y].up] /\ u[w[y]].name = t[y].name
  BY DEF CopyOf
<1>2. /\ B \subseteq DOMAIN t /\ o \in B
      /\ \A y \in B \ {o} : HasUp(t, y) /\ t[y].up \in B
      /\ \A y \in DOMAIN t : y \in B <=> y = o \/ (HasUp(t, y) /\ t[y].up \in B)
  <2>1. Ranked(t)
    BY DEF TreeOk
  <2>2. \A y \in DOMAIN t : y \in B <=> y = o \/ (HasUp(t, y) /\ t[y].up \in B)
    BY <2>1, BelowDef
  <2> QED
    BY <2>2, BelowOk
<1>3. /\ W \subseteq (1..N) \ DOMAIN t
      /\ \A y, z \in B : w[y] = w[z] => y = z
      /\ \A y \in B : w[y] \in W
      /\ DOMAIN w = B
  BY DEF IsInjective
<1> HIDE DEF B, W
<1>4. \A y \in DOMAIN t : HasUp(u, y) <=> HasUp(t, y)
  <2>1. None \notin W
    BY <1>3 DEF None
  <2> QED
    BY <1>1, <1>3, <2>1 DEF HasUp, TreeOk
<1>5. \A y \in B : HasUp(u, w[y]) /\ u[w[y]].up = IF y = o THEN p ELSE w[t[y].up]
  BY <1>1, <1>2, <1>3 DEF HasUp
<1>6. \A c \in W : \E y \in B : c = w[y]
  BY DEF W
<1>7. Ranked(u)
  <2>1. PICK r : RankedBy(t, r)
    BY DEF TreeOk, Ranked
  <2> DEFINE of(c) == CHOOSE y \in B : c = w[y]
             q == [c \in DOMAIN u |-> IF c \in DOMAIN t THEN r[c] ELSE r[of(c)] + r[p] + 1]
  <2>2. \A y \in B : of(w[y]) = y
    BY <1>3
  <2>3. \A y \in B : q[w[y]] = r[y] + r[p] + 1 /\ q[w[y]] \in Nat
    <3>1. \A y \in B : w[y] \in DOMAIN u /\ w[y] \notin DOMAIN t
      BY <1>1, <1>3
    <3>2. \A y \in B : q[w[y]] = r[of(w[y])] + r[p] + 1
      BY <3>1
    <3>3. \A y \in B : r[y] \in Nat
      BY <1>2, <2>1 DEF RankedBy
    <3>4. r[p] \in Nat
      BY <2>1 DEF RankedBy
    <3> HIDE DEF of, q
    <3> QED
      BY <2>2, <3>2, <3>3, <3>4
  <2>4. \A y \in DOMAIN t : q[y] = r[y] /\ q[y] \in Nat
    BY <1>1, <2>1 DEF RankedBy
  <2>5. q = [c \in DOMAIN u |-> q[c]]
    OBVIOUS
  <2> HIDE DEF q, of
  <2>6. \A c \in DOMAIN u : q[c] \in Nat
    BY <1>1, <1>6, <2>3, <2>4
  <2>7. ASSUME NEW y \in DOMAIN t, HasUp(u, y) PROVE q[u[y].up] < q[y]
    <3>1. u[y].up = t[y].up /\ t[y].up \in DOMAIN t /\ r[t[y].up] < r[y]
      BY <1>1, <1>4, <2>1, <2>7 DEF RankedBy, HasUp
    <3> QED
      BY <2>4, <3>1
  <2>8. ASSUME NEW y \in B PROVE q[u[w[y]].up] < q[w[y]]
    <3>1. CASE y = o
      <4>1. u[w[y]].up = p
        BY <1>1, <3>1
      <4>2. r[y] \in Nat /\ r[p] \in Nat
        BY <1>2, <2>1 DEF RankedBy
      <4> QED
        BY <2>3, <2>4, <4>1, <4>2
    <3>2. CASE y # o
      <4>1. u[w[y]].up = w[t[y].up] /\ t[y].up \in B /\ HasUp(t, y)
        BY <1>1, <1>2, <3>2
      <4>2. r[t[y].up] < r[y] /\ r[t[y].up] \in Nat /\ r[y] \in Nat /\ r[p] \in Nat
        BY <1>2, <2>1, <4>1 DEF RankedBy
      <4> QED
        BY <2>3, <4>1, <4>2
    <3> QED
      BY <3>1, <3>2
  <2>9. \A c \in DOMAIN u : HasUp(u, c) => q[u[c].up] < q[c]
    BY <1>1, <1>6, <2>7, <2>8
  <2>10. RankedBy(u, q)
    BY <2>5, <2>6, <2>9 DEF RankedBy
  <2> QED
    BY <2>10 DEF Ranked
<1>8. Siblings(u)
  <2>1. \A y \in DOMAIN t : t[y].up = p => t[y].name # n
    BY DEF Child
  <2>2. p \notin W
    BY <1>3
  <2>3. ASSUME NEW y \in DOMAIN t, NEW z \in DOMAIN t,
               HasUp(u, y), u[z].up = u[y].up, u[z].name = u[y].name
        PROVE  y = z
    BY <1>1, <1>4, <2>3 DEF TreeOk, Siblings
  <2>4. ASSUME NEW y \in B, NEW z \in DOMAIN t,
               u[z].up = u[w[y]].up, u[z].name = u[w[y]].name
        PROVE  FALSE
    <3>1. t[z].up = u[w[y]].up /\ t[z].name = u[w[y]].name
      BY <1>1, <2>4
    <3>2. t[z].up \notin W
      BY <1>3 DEF TreeOk, None
    <3>3. CASE y = o
      BY <1>1, <2>1, <3>1, <3>3
    <3>4. CASE y # o
      <4>1. u[w[y]].up \in W
        BY <1>1, <1>2, <1>3, <3>4
      <4> QED
        BY <3>1, <3>2, <4>1
    <3> QED
      BY <3>3, <3>4
  <2>5. ASSUME NEW y \in B, NEW z \in B,
               u[w[z]].up = u[w[y]].up, u[w[z]].name = u[w[y]].name
        PROVE  y = z
    <3>1. CASE y = o /\ z # o
      <4>1. u[w[z]].up \in W
        BY <1>1, <1>2, <1>3, <3>1
      <4> QED
        BY <1>1, <2>2, <2>5, <3>1, <4>1
    <3>2. CASE z = o /\ y # o
      <4>1. u[w[y]].up \in W
        BY <1>1, <1>2, <1>3, <3>2
      <4> QED
        BY <1>1, <2>2, <2>5, <3>2, <4>1
    <3>3. CASE y # o /\ z # o
      <4>1. w[t[z].up] = w[t[y].up] /\ t[z].name = t[y].name
        BY <1>1, <2>5, <3>3
      <4>2. t[z].up \in B /\ t[y].up \in B /\ HasUp(t, y) /\ HasUp(t, z)
        BY <1>2, <3>3
      <4>3. t[z].up = t[y].up
        BY <1>3, <4>1, <4>2
      <4> QED
        BY <1>2, <4>1, <4>2, <4>3 DEF TreeOk, Siblings
    <3> QED
      BY <3>1, <3>2, <3>3
  <2> SUFFICES ASSUME NEW y \in DOMAIN u, NEW z \in DOMAIN u,
                      HasUp(u, y), u[z].up = u[y].up, u[z].name = u[y].name
               PROVE  y = z
    BY DEF Siblings
  <2>6. CASE y \in DOMAIN t /\ z \in DOMAIN t
    BY <2>3, <2>6
  <2>7. CASE y \in W /\ z \in DOMAIN t
    <3>1. PICK y1 \in B : y = w[y1]
      BY <1>6, <2>7
    <3> QED
      BY <2>4, <2>7, <3>1
  <2>8. CASE y \in DOMAIN t /\ z \in W
    <3>1. PICK z1 \in B : z = w[z1]
      BY <1>6, <2>8
    <3> QED
      BY <2>4, <2>8, <3>1
  <2>9. CASE y \in W /\ z \in W
    <3>1. PICK y1 \in B : y = w[y1]
      BY <1>6, <2>9
    <3>2. PICK z1 \in B : z = w[z1]
      BY <1>6, <2>9
    <3> QED
      BY <2>5, <3>1, <3>2
  <2> QED
    BY <1>1, <2>6, <2>7, <2>8, <2>9
<1>9. TreeOk(u, N)
  <2>1. DOMAIN u \subseteq 1..N /\ Root \subseteq DOMAIN u
    BY <1>1, <1>3 DEF TreeOk
  <2>2. \A x \in Root : u[x].up = None
    BY <1>1 DEF TreeOk
  <2>3. \A c \in DOMAIN u : u[c].up \in DOMAIN u \cup {None}
    <3>1. ASSUME NEW c \in DOMAIN t PROVE u[c].up \in DOMAIN u \cup {None}
      BY <1>1 DEF TreeOk
    <3>2. ASSUME NEW c \in W PROVE u[c].up \in DOMAIN u \cup {None}
      <4>1. PICK y \in B : c = w[y]
        BY <1>6, <3>2
      <4> QED
        BY <1>5, <4>1 DEF HasUp
    <3> QED
      BY <1>1, <3>1, <3>2
  <2> QED
    BY <1>7, <1>8, <2>1, <2>2, <2>3 DEF TreeOk
<1>10. \A y \in DOMAIN t : LinkedIn(u, y) <=> LinkedIn(t, y)
  <2>1. \A y \in DOMAIN t : LinkedIn(t, y) <=> IF HasUp(t, y) THEN LinkedIn(t, t[y].up) ELSE y \in Root
    BY LinkedDef DEF TreeOk
  <2> DEFINE L == {y \in DOMAIN t : LinkedIn(t, y)} \cup W
  <2>2. ASSUME NEW y \in DOMAIN t PROVE y \in L <=> IF HasUp(u, y) THEN u[y].up \in L ELSE y \in Root
    BY <1>1, <1>3, <1>4, <2>1 DEF HasUp
  <2>3. ASSUME NEW y \in B
        PROVE  w[y] \in L <=> IF HasUp(u, w[y]) THEN u[w[y]].up \in L ELSE w[y] \in Root
    <3>1. u[w[y]].up \in L
      <4>1. CASE y = o
        BY <1>1, <4>1
      <4>2. CASE y # o
        BY <1>1, <1>2, <1>3, <4>2
      <4> QED
        BY <4>1, <4>2
    <3> QED
      BY <1>3, <1>5, <3>1
  <2>4. ASSUME NEW c \in DOMAIN u PROVE c \in L <=> IF HasUp(u, c) THEN u[c].up \in L ELSE c \in Root
    <3>1. CASE c \in DOMAIN t
      BY <2>2, <3>1
    <3>2. CASE c \in W
      <4>1. PICK y \in B : c = w[y]
        BY <1>6, <3>2
      <4> HIDE DEF L
      <4> QED
        BY <2>3, <4>1
    <3> QED
      BY <1>1, <3>1, <3>2
  <2> HIDE DEF L
  <2>5. \A c \in DOMAIN u : LinkedIn(u, c) <=> c \in L
    BY <1>7, <2>4, LinkedOnly
  <2>6. \A y \in DOMAIN t : y \in L <=> LinkedIn(t, y)
    BY <1>3 DEF L
  <2> QED
    BY <1>1, <2>5, <2>6
<1>11. \A y \in DOMAIN u : y \in Below(u, o) <=> y \in B
  <2>1. ASSUME NEW y \in DOMAIN t PROVE y \in B <=> y = o \/ (HasUp(u, y) /\ u[y].up \in B)
    BY <1>1, <1>2, <1>4
  <2>2. ASSUME NEW y \in B PROVE w[y] \in B <=> w[y] = o \/ (HasUp(u, w[y]) /\ u[w[y]].up \in B)
    <3>1. w[y] \notin DOMAIN t /\ w[y] \notin B /\ w[y] # o
      BY <1>2, <1>3
    <3>2. u[w[y]].up \notin B
      <4>1. CASE y = o
        BY <1>1, <4>1 DEF B
      <4>2. CASE y # o
        BY <1>1, <1>2, <1>3, <4>2
      <4> QED
        BY <4>1, <4>2
    <3> QED
      BY <3>1, <3>2
  <2>3. \A y \in DOMAIN u : y \in B <=> y = o \/ (HasUp(u, y) /\ u[y].up \in B)
    BY <1>1, <1>6, <2>1, <2>2
  <2> QED
    BY <1>7, <2>3, BelowOnly
<1> QED
  BY <1>1, <1>9, <1>10, <1>11 DEF B, SameLinks

-----------------------------------------------------------------------------
(* Handles for objects *)

\* The Handles in the domain of at, which are live, are for the objects that
\* at says, no two for one: a Handle is where its object is, under the same
\* name.
Match(t, h, at) ==
    /\ at = [x \in DOMAIN at |-> at[x]]
    /\ DOMAIN at \subseteq DOMAIN h
    /\ IsInjective(at)
    /\ \A x \in DOMAIN at : LinkedIn(t, at[x])
    /\ \A x \in Root \cap DOMAIN at : at[x] = x
    /\ \A x \in DOMAIN at \ Root :
          /\ at[x] \notin Root
          /\ h[x].up \in DOMAIN at
          /\ t[at[x]].up = at[h[x].up]
          /\ t[at[x]].name = h[x].name

\* With a node, what is in it belongs to Z.
ClosedIn(Z, t) == \A y \in DOMAIN t : HasUp(t, y) /\ t[y].up \in Z => y \in Z

\* The objects of the hierarchy t that are not in Z are in u as they were.
KeepsObjects(u, t, Z) ==
    \A y \in DOMAIN t : LinkedIn(t, y) /\ y \notin Z =>
        LinkedIn(u, y) /\ u[y].up = t[y].up /\ u[y].name = t[y].name

\* And so are their Handles.
KeepsHandles(g, h, at, Z) ==
    \A x \in DOMAIN at : at[x] \notin Z =>
        x \in DOMAIN g /\ g[x].up = h[x].up /\ g[x].name = h[x].name

\* bt is at without the Handles of objects in Z.
PartOf(bt, at, Z) ==
    /\ DOMAIN bt = {x \in DOMAIN at : at[x] \notin Z}
    /\ \A x \in DOMAIN bt : bt[x] = at[x]

\* Such Handles stay those of the objects that are not in Z.
LEMMA MatchKept ==
    ASSUME NEW N \in Nat, NEW t, TreeOk(t, N), NEW h, NEW at, Match(t, h, at),
           NEW Z, ClosedIn(Z, t), NEW u, KeepsObjects(u, t, Z),
           NEW g, KeepsHandles(g, h, at, Z)
    PROVE  \E bt : Match(u, g, bt) /\ PartOf(bt, at, Z)
<1> USE DEF ClosedIn, KeepsObjects, KeepsHandles
<1> DEFINE D == {x \in DOMAIN at : at[x] \notin Z}
           bt == [x \in D |-> at[x]]
<1>1. DOMAIN bt = D /\ \A x \in D : bt[x] = at[x]
  OBVIOUS
<1>2. bt = [x \in DOMAIN bt |-> bt[x]]
  OBVIOUS
<1>3. D \subseteq DOMAIN at /\ \A x \in D : at[x] \notin Z
  OBVIOUS
<1> HIDE DEF bt, D
<1>4. \A x \in D : LinkedIn(t, at[x]) /\ at[x] \in DOMAIN t
  BY <1>3 DEF Match, LinkedIn
<1>5. ASSUME NEW x \in D \ Root PROVE h[x].up \in D
  <2>1. h[x].up \in DOMAIN at /\ t[at[x]].up = at[h[x].up] /\ LinkedIn(t, at[h[x].up])
    BY <1>3 DEF Match
  <2>2. HasUp(t, at[x])
    BY <2>1 DEF HasUp, LinkedIn
  <2>3. at[h[x].up] \notin Z
    BY <1>3, <1>4, <2>1, <2>2
  <2> QED
    BY <2>1, <2>3 DEF D
<1>6. Match(u, g, bt)
  <2>1. DOMAIN bt \subseteq DOMAIN g
    BY <1>1, <1>3
  <2>2. IsInjective(bt)
    BY <1>1, <1>3 DEF Match, IsInjective
  <2>3. \A x \in DOMAIN bt : LinkedIn(u, bt[x])
    BY <1>1, <1>3, <1>4
  <2>4. \A x \in Root \cap DOMAIN bt : bt[x] = x
    BY <1>1, <1>3 DEF Match
  <2>5. ASSUME NEW x \in DOMAIN bt \ Root
        PROVE  /\ bt[x] \notin Root
               /\ g[x].up \in DOMAIN bt
               /\ u[bt[x]].up = bt[g[x].up]
               /\ u[bt[x]].name = g[x].name
    <3>1. x \in D \ Root /\ bt[x] = at[x] /\ h[x].up \in D /\ bt[h[x].up] = at[h[x].up]
      BY <1>1, <1>5, <2>5
    <3>2. g[x].up = h[x].up /\ g[x].name = h[x].name
      BY <1>3, <3>1
    <3>3. u[at[x]].up = t[at[x]].up /\ u[at[x]].name = t[at[x]].name
      BY <1>3, <1>4, <3>1
    <3>4. at[x] \notin Root /\ t[at[x]].up = at[h[x].up] /\ t[at[x]].name = h[x].name
      BY <1>3, <3>1 DEF Match
    <3> QED
      BY <1>1, <3>1, <3>2, <3>3, <3>4
  <2> QED
    BY <1>2, <2>1, <2>2, <2>3, <2>4, <2>5 DEF Match
<1> QED
  BY <1>1, <1>6 DEF D, PartOf

\* The Handle x is in the Handle p where the object c is in that of p.
Alike(t, h, at, p, c, x) ==
    t[c].up = at[p] /\ h[x].up = p /\ h[x].name = t[c].name

\* bt is at with the Handle x for c.
MoreThan(bt, at, x, c) ==
    /\ DOMAIN bt = DOMAIN at \cup {x}
    /\ bt[x] = c
    /\ \A y \in DOMAIN at : bt[y] = at[y]

\* Who has the Handle p of the object above c, and the Handle x in p of the
\* name that c has, has a Handle for c: it was, or nothing was.
LEMMA MatchMore ==
    ASSUME NEW N \in Nat, NEW t, TreeOk(t, N), NEW M \in Nat, NEW h, TreeOk(h, M),
           NEW at, Match(t, h, at),
           NEW p \in DOMAIN at, NEW c \in DOMAIN t, NEW x \in DOMAIN h,
           Alike(t, h, at, p, c, x)
    PROVE  \E bt : Match(t, h, bt) /\ MoreThan(bt, at, x, c)
<1> USE DEF Alike
<1>1. /\ DOMAIN at \subseteq DOMAIN h /\ IsInjective(at)
      /\ \A y \in DOMAIN at : LinkedIn(t, at[y]) /\ at[y] \in DOMAIN t
      /\ \A y \in DOMAIN at : y \in Root => at[y] = y
  BY DEF Match, LinkedIn
<1>2. /\ HasUp(t, c) /\ HasUp(h, x)
      /\ LinkedIn(t, c) /\ c \notin Root /\ x \notin Root
  <2>1. HasUp(t, c) /\ HasUp(h, x)
    BY <1>1 DEF HasUp
  <2> QED
    BY <1>1, <2>1, LinkedDef, RootsOnTop DEF TreeOk
<1>3. ASSUME NEW y \in DOMAIN at, y = x \/ at[y] = c PROVE y = x /\ at[y] = c
  <2>1. y \notin Root
    BY <1>1, <1>2, <1>3
  <2>2. h[y].up \in DOMAIN at /\ t[at[y]].up = at[h[y].up] /\ t[at[y]].name = h[y].name
    BY <2>1 DEF Match
  <2>3. CASE y = x
    BY <1>1, <1>2, <2>2, <2>3 DEF TreeOk, Siblings
  <2>4. CASE at[y] = c
    <3>1. h[y].up = p
      BY <1>1, <2>2, <2>4 DEF IsInjective
    <3> QED
      BY <1>1, <1>2, <2>2, <2>4, <3>1 DEF TreeOk, Siblings
  <2> QED
    BY <1>3, <2>3, <2>4
<1> DEFINE bt == [y \in DOMAIN at \cup {x} |-> IF y = x THEN c ELSE at[y]]
<1>4. /\ DOMAIN bt = DOMAIN at \cup {x} /\ bt[x] = c
      /\ \A y \in DOMAIN at : bt[y] = at[y]
      /\ bt = [y \in DOMAIN bt |-> bt[y]]
  BY <1>3
<1> HIDE DEF bt
<1>5. Match(t, h, bt)
  <2>1. IsInjective(bt)
    BY <1>1, <1>3, <1>4 DEF IsInjective
  <2>2. \A y \in DOMAIN bt : LinkedIn(t, bt[y])
    BY <1>1, <1>2, <1>4
  <2>3. \A y \in Root \cap DOMAIN bt : bt[y] = y
    BY <1>1, <1>2, <1>4
  <2>4. ASSUME NEW y \in DOMAIN at \ Root
        PROVE  /\ bt[y] \notin Root
               /\ h[y].up \in DOMAIN bt
               /\ t[bt[y]].up = bt[h[y].up]
               /\ t[bt[y]].name = h[y].name
    BY <1>4 DEF Match
  <2>5. /\ bt[x] \notin Root /\ h[x].up \in DOMAIN bt
        /\ t[bt[x]].up = bt[h[x].up] /\ t[bt[x]].name = h[x].name
    BY <1>2, <1>4
  <2> QED
    BY <1>1, <1>4, <2>1, <2>2, <2>3, <2>4, <2>5 DEF Match
<1> QED
  BY <1>4, <1>5 DEF MoreThan

\* The node of p that is called n, if there is one, with all that is below it.
ErasedFrom(h, p, n) == UNION {Below(h, x) : x \in Child(h, p, n)}

\* Of the Handles of objects, those in E are the ones of the objects in Z.
Shadow(at, E, Z) == \A y \in DOMAIN at : y \in E <=> at[y] \in Z

\* The Handles below a Handle x of an object c are, among those of objects,
\* the Handles of the objects below c.
LEMMA MatchBelow ==
    ASSUME NEW N \in Nat, NEW t, TreeOk(t, N), NEW M \in Nat, NEW h, TreeOk(h, M),
           NEW at, Match(t, h, at),
           NEW p \in DOMAIN at, NEW c \in DOMAIN t, t[c].up = at[p],
           NEW E, E = ErasedFrom(h, p, t[c].name)
    PROVE  Shadow(at, E, Below(t, c)) /\ E \cap Root = {}
<1>1. /\ DOMAIN at \subseteq DOMAIN h /\ IsInjective(at)
      /\ \A y \in DOMAIN at : LinkedIn(t, at[y]) /\ at[y] \in DOMAIN t
      /\ \A y \in DOMAIN at : y \in Root => at[y] = y
  BY DEF Match, LinkedIn
<1>2. HasUp(t, c) /\ c \notin Root
  <2>1. HasUp(t, c)
    BY <1>1 DEF HasUp
  <2> QED
    BY <2>1, RootsOnTop
<1>3. /\ Ranked(h) /\ Ranked(t)
      /\ \A y \in DOMAIN t : y \in Below(t, c) <=> y = c \/ (HasUp(t, y) /\ t[y].up \in Below(t, c))
      /\ \A x : \A y \in DOMAIN h : y \in Below(h, x) <=> y = x \/ (HasUp(h, y) /\ h[y].up \in Below(h, x))
  BY BelowDef DEF TreeOk
<1> DEFINE C == Child(h, p, t[c].name)
<1>4. \A x \in C : x \in DOMAIN h /\ h[x].up = p /\ h[x].name = t[c].name /\ HasUp(h, x) /\ x \notin Root
  <2>1. \A x \in C : x \in DOMAIN h /\ h[x].up = p /\ h[x].name = t[c].name
    BY DEF Child
  <2>2. \A x \in C : HasUp(h, x)
    BY <1>1, <2>1 DEF HasUp
  <2> QED
    BY <2>1, <2>2, RootsOnTop
<1>5. \A y \in DOMAIN h : h[y].up = p /\ h[y].name = t[c].name => y \in C
  BY DEF Child
<1>6. \A y \in DOMAIN h : y \in E <=> y \in C \/ (HasUp(h, y) /\ h[y].up \in E)
  <2>1. \A y : y \in E <=> \E x \in C : y \in Below(h, x)
    BY DEF ErasedFrom
  <2> HIDE DEF C
  <2> QED
    BY <1>3, <2>1
<1> HIDE DEF C
<1>7. E \cap Root = {}
  <2>1. \A x \in Root : ~HasUp(h, x) /\ x \in DOMAIN h
    BY RootsOnTop
  <2> QED
    BY <1>4, <1>6, <2>1
<1> DEFINE S == {y \in DOMAIN h : y \in DOMAIN at => (y \in E <=> at[y] \in Below(t, c))}
<1>8. ASSUME NEW y \in DOMAIN h, HasUp(h, y) => h[y].up \in S PROVE y \in S
  <2> SUFFICES ASSUME y \in DOMAIN at PROVE y \in E <=> at[y] \in Below(t, c)
    OBVIOUS
  <2>1. CASE y \in Root
    <3>1. at[y] = y /\ ~HasUp(t, y) /\ y # c
      BY <1>1, <1>2, <2>1, RootsOnTop
    <3> QED
      BY <1>1, <1>3, <1>7, <2>1, <3>1
  <2>2. CASE y \notin Root
    <3>1. h[y].up \in DOMAIN at /\ t[at[y]].up = at[h[y].up] /\ t[at[y]].name = h[y].name
      BY <2>2 DEF Match
    <3>2. HasUp(h, y) /\ HasUp(t, at[y])
      BY <1>1, <3>1 DEF HasUp
    <3>3. h[y].up \in E <=> at[h[y].up] \in Below(t, c)
      BY <1>8, <3>1, <3>2
    <3>4. y \in C <=> at[y] = c
      <4>1. ASSUME y \in C PROVE at[y] = c
        <5>1. t[at[y]].up = t[c].up /\ t[at[y]].name = t[c].name
          BY <1>4, <3>1, <4>1
        <5> QED
          BY <1>1, <1>2, <5>1 DEF TreeOk, Siblings
      <4>2. ASSUME at[y] = c PROVE y \in C
        <5>1. h[y].up = p
          BY <1>1, <3>1, <4>2 DEF IsInjective
        <5> QED
          BY <1>5, <3>1, <4>2, <5>1
      <4> QED
        BY <4>1, <4>2
    <3> QED
      BY <1>1, <1>3, <1>6, <3>1, <3>2, <3>3, <3>4
  <2> QED
    BY <2>1, <2>2
<1> HIDE DEF S
<1>9. DOMAIN h \subseteq S
  BY <1>3, <1>8, FromAbove
<1> QED
  BY <1>1, <1>7, <1>9 DEF S, Shadow

-----------------------------------------------------------------------------
(* The operators of the calls *)

ObjectRecord == [up : Nat, name : Nat, isStruct : BOOLEAN]
HandleRecord == [up : Nat, name : Nat]
Objects(t) == t \in [DOMAIN t -> ObjectRecord] /\ TreeOk(t, MaxObject)
Handles(h) == h \in [DOMAIN h -> HandleRecord] /\ TreeOk(h, MaxHandle)

\* The nodes of t that are in the hierarchy of a file.
Hier(t) == {y \in DOMAIN t : LinkedIn(t, y)}

\* The nodes K are of the same sort in t and in u.
SortsKept(K, t, u) == \A y \in K : u[y].isStruct = t[y].isStruct

\* What is below o in t is of the same sort in u, where w says which it is there.
SameSorts(t, u, o, w) == \A y \in Below(t, o) : u[w[y]].isStruct = t[y].isStruct

\* u is t with a copy of what is below o.
MadeCopy(t, u, o, p, n) ==
    \E w : /\ CopyOf(t, o, p, n, w, u)
           /\ SameSorts(t, u, o, w)
           /\ \A y \in Below(t, o) : w[y] \notin DOMAIN t

\* What the constants are.
LEMMA ConstantsOk ==
    /\ MaxObject \in Nat /\ MaxHandle \in Nat /\ MaxLoc \in Nat /\ MaxName \in Nat
    /\ FileId \subseteq 1..MaxLoc
    /\ Root \subseteq 1..MaxObject /\ Root \subseteq 1..MaxHandle
    /\ \A i \in FileId : RootOf[i] \in Root
    /\ None \in Nat /\ Name \subseteq Nat /\ \A i \in 1..MaxObject : i # None
BY HierarchyAssumption DEF Root, None, Name

\* The function g is f with one more value.
IsExtension(g, f, x, v) ==
    /\ DOMAIN g = DOMAIN f \cup {x}
    /\ g = [y \in DOMAIN g |-> g[y]]
    /\ g[x] = v
    /\ \A y \in DOMAIN f : y # x => g[y] = f[y]

LEMMA ExtendedOk ==
    ASSUME NEW f, NEW x, NEW v
    PROVE  IsExtension(Extended(f, x, v), f, x, v)
BY DEF Extended, IsExtension

\* A new object is in the structure it was made in.
LEMMA CreatedOk ==
    ASSUME NEW t, Objects(t), NEW p \in DOMAIN t, NEW n \in Name, NEW s \in BOOLEAN,
           Child(t, p, n) = {}, (1..MaxObject) \ DOMAIN t # {},
           NEW x, x = Min(1..MaxObject \ DOMAIN t), NEW u, u = Created(t, p, n, s)
    PROVE  /\ Objects(u)
           /\ x \notin DOMAIN t
           /\ GrownBy(u, t, x, p, n)
           /\ SameLinks(u, t)
           /\ u[x].isStruct = s
<1> DEFINE rec == [up |-> p, name |-> n, isStruct |-> s]
           F == (1..MaxObject) \ DOMAIN t
<1>1. x \in F
  BY FirstPosition, ConstantsOk
<1>2. u = Extended(t, x, rec)
  BY DEF Created
<1>3. TreeOk(t, MaxObject) /\ t \in [DOMAIN t -> ObjectRecord] /\ MaxObject \in Nat
  BY ConstantsOk DEF Objects
<1>4. rec \in ObjectRecord /\ rec.up = p /\ rec.name = n /\ rec.isStruct = s
  <2>1. p \in Nat /\ n \in Nat
    BY <1>3, ConstantsOk DEF TreeOk
  <2> QED
    BY <2>1 DEF ObjectRecord
<1> HIDE DEF rec, F
<1>5. IsExtension(u, t, x, rec)
  BY <1>2, ExtendedOk
<1>6. x \in 1..MaxObject /\ x \notin DOMAIN t
  BY <1>1 DEF F
<1>7. GrownBy(u, t, x, p, n)
  BY <1>4, <1>5, <1>6 DEF IsExtension, GrownBy
<1>8. TreeOk(u, MaxObject) /\ SameLinks(u, t)
  BY <1>3, <1>6, <1>7, GrownTree
<1>9. u \in [DOMAIN u -> ObjectRecord]
  <2>1. DOMAIN u = DOMAIN t \cup {x} /\ u = [y \in DOMAIN u |-> u[y]]
    BY <1>5 DEF IsExtension
  <2>2. \A y \in DOMAIN u : u[y] \in ObjectRecord
    BY <1>3, <1>4, <1>5, <1>6 DEF IsExtension
  <2> QED
    BY <2>1, <2>2
<1>10. u[x].isStruct = s
  BY <1>4, <1>5 DEF IsExtension
<1> QED
  BY <1>6, <1>7, <1>8, <1>9, <1>10 DEF Objects

\* Freeing what is not used changes nothing in the hierarchy.
LEMMA InUseOk ==
    ASSUME NEW t, Objects(t), NEW l, \A k \in DOMAIN l : l[k].obj \in DOMAIN t,
           NEW u, u = InUse(t, l)
    PROVE  /\ Objects(u)
           /\ \A k \in DOMAIN l : l[k].obj \in DOMAIN u
           /\ SameHierarchy(u, t)
           /\ \A y \in DOMAIN t : LinkedIn(t, y) => y \in DOMAIN u /\ u[y].name = t[y].name
           /\ DOMAIN u \subseteq DOMAIN t
           /\ SortsKept(Hier(t), t, u)
<1> DEFINE S == Root \cup {l[k].obj : k \in DOMAIN l}
           K == {o \in DOMAIN t : ToSet(Chain(t, o)) \cap S # {}}
<1>1. u = [o \in K |-> IF t[o].up \in K THEN t[o] ELSE [t[o] EXCEPT !.up = None]]
  BY DEF InUse
<1>2. TreeOk(t, MaxObject) /\ t \in [DOMAIN t -> ObjectRecord] /\ Ranked(t) /\ MaxObject \in Nat
  BY ConstantsOk DEF Objects, TreeOk
<1>3. \A y \in DOMAIN t : LinkedIn(t, y) => y \in K
  <2> SUFFICES ASSUME NEW y \in DOMAIN t, LinkedIn(t, y) PROVE y \in K
    OBVIOUS
  <2>1. Chain(t, y)[1] \in Root
    BY DEF LinkedIn
  <2>2. Chain(t, y) \in Seq(DOMAIN t) /\ Chain(t, y) # <<>>
    BY <1>2, ChainOk
  <2>3. 1 \in DOMAIN Chain(t, y)
    BY <2>2
  <2>4. Chain(t, y)[1] \in ToSet(Chain(t, y))
    BY <2>3 DEF ToSet
  <2> QED
    BY <2>1, <2>4
<1>4. \A y \in DOMAIN t : y \in S => y \in K
  <2>1. ASSUME NEW y \in DOMAIN t PROVE y \in ToSet(Chain(t, y))
    <3>1. y \in Below(t, y)
      BY <1>2, BelowDef
    <3> QED
      BY <3>1 DEF Below
  <2> QED
    BY <2>1
<1>5. Root \subseteq K /\ \A k \in DOMAIN l : l[k].obj \in K
  BY <1>2, <1>4 DEF TreeOk
<1>6. K \in SUBSET DOMAIN t
  OBVIOUS
<1> HIDE DEF K, S
<1>7. \A y \in K : t[y] \in ObjectRecord
  BY <1>2, <1>6
<1>8. \A y \in K : /\ u[y] \in ObjectRecord /\ u[y].name = t[y].name
                   /\ u[y].isStruct = t[y].isStruct
                   /\ u[y].up = IF t[y].up \in K THEN t[y].up ELSE None
  BY <1>1, <1>7, ConstantsOk DEF ObjectRecord
<1>9. DOMAIN u = K /\ u \in [DOMAIN u -> ObjectRecord]
  <2>1. DOMAIN u = K /\ u = [o \in DOMAIN u |-> u[o]]
    BY <1>1
  <2> QED
    BY <1>8, <2>1
<1>10. Pruned(u, t, K)
  BY <1>8, <1>9 DEF Pruned
<1>11. TreeOk(u, MaxObject) /\ SameHierarchy(u, t)
  BY <1>2, <1>3, <1>5, <1>6, <1>10, PrunedTree
<1>12. SortsKept(Hier(t), t, u)
  BY <1>3, <1>8 DEF SortsKept, Hier
<1> QED
  BY <1>3, <1>5, <1>6, <1>8, <1>9, <1>11, <1>12 DEF Objects

\* What is cut off is not in the hierarchy any more.
LEMMA CutOk ==
    ASSUME NEW t, Objects(t), NEW o \in DOMAIN t \ Root, NEW u, u = Cut(t, o)
    PROVE  Objects(u) /\ CutOff(u, t, o) /\ LinksLess(u, t, o)
<1>1. TreeOk(t, MaxObject) /\ t \in [DOMAIN t -> ObjectRecord] /\ MaxObject \in Nat
  BY ConstantsOk DEF Objects
<1>2. /\ DOMAIN u = DOMAIN t /\ u = [y \in DOMAIN u |-> u[y]]
      /\ \A y \in DOMAIN t \ {o} : u[y] = t[y]
      /\ u[o] = [t[o] EXCEPT !.up = None]
  BY <1>1 DEF Cut
<1>3. u[o] \in ObjectRecord /\ u[o].up = None
  BY <1>1, <1>2, ConstantsOk DEF ObjectRecord
<1>4. u \in [DOMAIN u -> ObjectRecord]
  BY <1>1, <1>2, <1>3
<1>5. CutOff(u, t, o)
  BY <1>2, <1>3 DEF CutOff
<1>6. TreeOk(u, MaxObject) /\ LinksLess(u, t, o)
  BY <1>1, <1>5, CutTree
<1> QED
  BY <1>4, <1>5, <1>6 DEF Objects

\* A set that is not larger than another fits into it.
LEMMA FitsInto ==
    ASSUME NEW S, NEW T, IsFiniteSet(S), IsFiniteSet(T), Cardinality(S) <= Cardinality(T)
    PROVE  Injection(S, T) # {}
<1> DEFINE s == Cardinality(S)
           u == Cardinality(T)
<1>1. s \in Nat /\ ExistsBijection(1..s, S) /\ u \in Nat /\ ExistsBijection(1..u, T)
  BY FS_CardinalityType
<1>2. ExistsBijection(S, 1..s)
  BY <1>1, Fun_ExistsBijSymmetric
<1>3. ExistsInjection(S, 1..s) /\ ExistsInjection(1..u, T)
  BY <1>1, <1>2 DEF ExistsInjection, ExistsBijection, Bijection
<1>4. ExistsInjection(1..s, 1..u)
  BY <1>1, Fun_NatInjLeq
<1>5. ExistsInjection(S, 1..u)
  BY <1>3, <1>4, Fun_ExistsInjTransitive
<1>6. ExistsInjection(S, T)
  BY <1>3, <1>5, Fun_ExistsInjTransitive
<1> QED
  BY <1>6 DEF ExistsInjection

\* A copy leaves everything where it was.
LEMMA CopiedOk ==
    ASSUME NEW t, Objects(t), NEW o \in DOMAIN t, NEW p \in DOMAIN t,
           p \notin Below(t, o), LinkedIn(t, p), NEW n \in Name, Child(t, p, n) = {},
           Cardinality(1..MaxObject \ DOMAIN t) >= Cardinality(Below(t, o)),
           NEW u, u = Copied(t, o, p, n)
    PROVE  /\ Objects(u)
           /\ DOMAIN t \subseteq DOMAIN u
           /\ \A y \in DOMAIN t : u[y] = t[y]
           /\ SameLinks(u, t)
           /\ \A y \in DOMAIN t : y \in Below(u, o) <=> y \in Below(t, o)
           /\ MadeCopy(t, u, o, p, n)
<1> DEFINE B == Below(t, o)
           F == 1..MaxObject \ DOMAIN t
           w == CHOOSE m \in Injection(B, F) : TRUE
           of == AntiFunction(w)
<1>1. TreeOk(t, MaxObject) /\ t \in [DOMAIN t -> ObjectRecord] /\ MaxObject \in Nat /\ Ranked(t)
  BY ConstantsOk DEF Objects, TreeOk
<1>2. /\ B \subseteq DOMAIN t /\ o \in B
      /\ \A y \in B : y # o => t[y].up \in B
  BY <1>1, BelowOk
<1>3. Injection(B, F) # {}
  <2>1. IsFiniteSet(1..MaxObject)
    BY <1>1, FS_Interval
  <2>2. F \subseteq 1..MaxObject /\ B \subseteq 1..MaxObject
    BY <1>1, <1>2 DEF TreeOk
  <2>3. IsFiniteSet(F) /\ IsFiniteSet(B)
    BY <2>1, <2>2, FS_Subset
  <2>4. Cardinality(B) <= Cardinality(F)
    BY <2>3, FS_CardinalityType
  <2> QED
    BY <2>3, <2>4, FitsInto
<1>4. w \in [B -> F] /\ IsInjective(w)
  <2>1. w \in Injection(B, F)
    BY <1>3
  <2> QED
    BY <2>1 DEF Injection
<1>5. u = [c \in DOMAIN t \cup Range(w) |->
              IF c \in DOMAIN t THEN t[c]
              ELSE IF of[c] = o THEN [t[o] EXCEPT !.up = p, !.name = n]
              ELSE [t[of[c]] EXCEPT !.up = w[@]]]
  BY DEF Copied
<1> HIDE DEF w
<1>6. \A y \in B : w[y] \in Range(w) /\ w[y] \notin DOMAIN t /\ w[y] \in 1..MaxObject
  BY <1>4 DEF Range
<1>7. Range(w) = {w[y] : y \in B}
  BY <1>4 DEF Range
<1>8. \A y \in B : of[w[y]] = y
  <2>1. of = [c \in Range(w) |-> CHOOSE y \in B : c \in Range(w) => w[y] = c]
    BY <1>4 DEF AntiFunction, Inverse
  <2>2. \A y, z \in B : w[y] = w[z] => y = z
    BY <1>4 DEF IsInjective
  <2> HIDE DEF B
  <2> QED
    BY <1>6, <2>1, <2>2
<1> HIDE DEF of, B, F
<1>9. /\ DOMAIN u = DOMAIN t \cup {w[y] : y \in B}
      /\ u = [c \in DOMAIN u |-> u[c]]
      /\ \A y \in DOMAIN t : u[y] = t[y]
  BY <1>5, <1>7
<1>10. u[w[o]] = [t[o] EXCEPT !.up = p, !.name = n]
  BY <1>2, <1>5, <1>6, <1>8
<1>11. \A y \in B \ {o} : u[w[y]] = [t[y] EXCEPT !.up = w[@]]
  BY <1>5, <1>6, <1>8
<1>12. \A y \in B : t[y] \in ObjectRecord /\ w[y] \in Nat
  BY <1>1, <1>2, <1>6
<1>13. p \in Nat /\ n \in Nat
  BY <1>1, ConstantsOk DEF TreeOk
<1>14. /\ u[w[o]] \in ObjectRecord /\ u[w[o]].up = p /\ u[w[o]].name = n
       /\ u[w[o]].isStruct = t[o].isStruct
  <2>1. t[o] \in ObjectRecord
    BY <1>2, <1>12
  <2> QED
    BY <1>10, <1>13, <2>1 DEF ObjectRecord
<1>15. ASSUME NEW y \in B \ {o}
       PROVE  /\ u[w[y]] \in ObjectRecord
              /\ u[w[y]].up = w[t[y].up] /\ u[w[y]].name = t[y].name
              /\ u[w[y]].isStruct = t[y].isStruct
  <2>1. t[y] \in ObjectRecord /\ w[t[y].up] \in Nat
    BY <1>2, <1>12
  <2>2. u[w[y]] = [t[y] EXCEPT !.up = w[t[y].up]]
    BY <1>11, <2>1 DEF ObjectRecord
  <2> QED
    BY <2>1, <2>2 DEF ObjectRecord
<1>16. CopyOf(t, o, p, n, w, u)
  BY <1>9, <1>14, <1>15 DEF CopyOf, B
<1>17. /\ TreeOk(u, MaxObject) /\ SameLinks(u, t)
       /\ \A y \in DOMAIN t : y \in Below(u, o) <=> y \in Below(t, o)
  BY <1>1, <1>4, <1>16, CopiedTree DEF B, F
<1>18. u \in [DOMAIN u -> ObjectRecord]
  <2>1. \A y \in DOMAIN t : u[y] \in ObjectRecord
    BY <1>1, <1>9
  <2>2. \A y \in B : u[w[y]] \in ObjectRecord
    BY <1>14, <1>15
  <2>3. \A c \in DOMAIN u : u[c] \in ObjectRecord
    BY <1>9, <2>1, <2>2
  <2> QED
    BY <1>9, <2>3
<1>19. SameSorts(t, u, o, w)
  BY <1>14, <1>15 DEF SameSorts, B
<1>20. MadeCopy(t, u, o, p, n)
  BY <1>6, <1>16, <1>19 DEF MadeCopy, B
<1> QED
  BY <1>9, <1>17, <1>18, <1>20 DEF Objects

\* The Handle for a name is the one that p has, or a new one in p that no
\* locator points at.
LEMMA WithHandleOk ==
    ASSUME Handles(handle), NEW p \in DOMAIN handle, NEW n \in Name, FreeHandle # {},
           NEW x, x = HandleFor(p, n), NEW h, h = WithHandle(p, n)
    PROVE  /\ Handles(h)
           /\ GrownBy(h, handle, x, p, n)
           /\ x \in 1..MaxHandle
           /\ x \in DOMAIN handle \/ \A k \in DOMAIN locs : locs[k].handle # x
<1> DEFINE rec == [up |-> p, name |-> n]
<1>1. TreeOk(handle, MaxHandle) /\ handle \in [DOMAIN handle -> HandleRecord] /\ MaxHandle \in Nat
  BY ConstantsOk DEF Handles
<1>2. rec \in HandleRecord /\ rec.up = p /\ rec.name = n
  <2>1. p \in Nat /\ n \in Nat
    BY <1>1, ConstantsOk DEF TreeOk
  <2> QED
    BY <2>1 DEF HandleRecord
<1>3. h = Extended(handle, x, rec)
  BY DEF WithHandle
<1>4. CASE Child(handle, p, n) # {}
  <2>1. x \in Child(handle, p, n)
    BY <1>4 DEF HandleFor
  <2>2. x \in DOMAIN handle /\ handle[x].up = p /\ handle[x].name = n
    BY <2>1 DEF Child
  <2>3. handle[x] \in HandleRecord
    BY <1>1, <2>2
  <2>4. handle[x] = rec
    BY <2>2, <2>3 DEF HandleRecord
  <2> HIDE DEF rec
  <2>5. IsExtension(h, handle, x, rec)
    BY <1>3, ExtendedOk
  <2>6. /\ DOMAIN h = DOMAIN handle /\ h = [y \in DOMAIN h |-> h[y]]
        /\ \A y \in DOMAIN handle : h[y] = handle[y]
    BY <2>2, <2>4, <2>5 DEF IsExtension
  <2>7. h = handle
    BY <1>1, <2>6
  <2>8. GrownBy(h, handle, x, p, n)
    BY <2>2, <2>7 DEF GrownBy
  <2>9. x \in 1..MaxHandle
    BY <1>1, <2>2 DEF TreeOk
  <2> QED
    BY <2>2, <2>7, <2>8, <2>9
<1>5. CASE Child(handle, p, n) = {}
  <2>1. x = Min(FreeHandle) /\ FreeHandle \in SUBSET (1..MaxHandle)
    BY <1>5 DEF HandleFor, FreeHandle
  <2>2. x \in FreeHandle
    BY <1>1, <2>1, FirstPosition
  <2>3. x \in 1..MaxHandle /\ x \notin DOMAIN handle /\ \A k \in DOMAIN locs : locs[k].handle # x
    BY <2>2 DEF FreeHandle
  <2> HIDE DEF rec
  <2>4. IsExtension(h, handle, x, rec)
    BY <1>3, ExtendedOk
  <2>5. GrownBy(h, handle, x, p, n)
    BY <1>2, <2>3, <2>4 DEF IsExtension, GrownBy
  <2>6. TreeOk(h, MaxHandle)
    BY <1>1, <1>5, <2>3, <2>5, GrownTree
  <2>7. h \in [DOMAIN h -> HandleRecord]
    <3>1. DOMAIN h = DOMAIN handle \cup {x} /\ h = [y \in DOMAIN h |-> h[y]]
      BY <2>4 DEF IsExtension
    <3>2. \A y \in DOMAIN h : h[y] \in HandleRecord
      BY <1>1, <1>2, <2>3, <2>4 DEF IsExtension
    <3> QED
      BY <3>1, <3>2
  <2> QED
    BY <2>3, <2>5, <2>6, <2>7 DEF Handles
<1> QED
  BY <1>4, <1>5

\* g is h without E.
Less(g, h, E) == DOMAIN g = DOMAIN h \ E /\ \A y \in DOMAIN g : g[y] = h[y]

\* Erasing takes away the Handle of that name in p and all that is below it.
LEMMA EraseHandleOk ==
    ASSUME Handles(handle), NEW p, NEW n,
           NEW E, E = ErasedFrom(handle, p, n), E \cap Root = {},
           NEW h, h = EraseHandle(p, n)
    PROVE  Handles(h) /\ Less(h, handle, E)
<1> USE DEF ErasedFrom
<1>1. TreeOk(handle, MaxHandle) /\ handle \in [DOMAIN handle -> HandleRecord] /\ MaxHandle \in Nat
  BY ConstantsOk DEF Handles
<1> DEFINE K == DOMAIN handle \ E
<1>2. h = [y \in K |-> handle[y]]
  BY DEF EraseHandle, Restrict
<1>3. \A y \in K : handle[y].up \in DOMAIN handle => handle[y].up \in K
  <2>1. \A x : \A y \in DOMAIN handle : HasUp(handle, y) /\ handle[y].up \in Below(handle, x) => y \in Below(handle, x)
    BY <1>1, BelowDef DEF TreeOk
  <2>2. \A y : y \in E <=> \E c \in Child(handle, p, n) : y \in Below(handle, c)
    OBVIOUS
  <2> QED
    BY <2>1, <2>2 DEF HasUp
<1>4. \A y \in K : handle[y].up \in K \cup {None}
  BY <1>1, <1>3 DEF TreeOk
<1>5. K \in SUBSET DOMAIN handle /\ Root \subseteq K
  BY <1>1 DEF TreeOk
<1> HIDE DEF K
<1>6. DOMAIN h = K /\ \A y \in K : h[y] = handle[y]
  BY <1>2
<1>7. Pruned(h, handle, K)
  <2>1. None \notin K
    BY <1>1, <1>5, RootsOnTop
  <2> QED
    BY <1>4, <1>6, <2>1 DEF Pruned
<1>8. TreeOk(h, MaxHandle)
  BY <1>1, <1>5, <1>7, PrunedTree
<1>9. h \in [DOMAIN h -> HandleRecord]
  BY <1>1, <1>2, <1>5
<1> QED
  BY <1>6, <1>8, <1>9 DEF Handles, K, Less

\* What a locator is when the objects are t.
Locators(l, t) ==
    /\ DOMAIN l \subseteq 1..MaxLoc
    /\ l = [k \in DOMAIN l |-> l[k]]
    /\ \A k \in DOMAIN l : l[k].obj \in DOMAIN t

\* l has a locator m more than before, for the object o and with the Handle h.
MadeLoc(l, m, o, h) ==
    /\ m \notin DOMAIN locs /\ DOMAIN l = DOMAIN locs \cup {m}
    /\ l[m].obj = o /\ l[m].handle = h
    /\ \A k \in DOMAIN locs : l[k] = locs[k]

\* A locator is put where there was none.
LEMMA WithLocOk ==
    ASSUME NEW t, Locators(locs, t), NEW u, DOMAIN t \subseteq DOMAIN u, FreeLoc # {},
           NEW o \in DOMAIN u, NEW h, NEW i, NEW l, l = WithLoc(o, h, i)
    PROVE  Locators(l, u) /\ \E m : MadeLoc(l, m, o, h)
<1> DEFINE m == Min(FreeLoc)
           rec == [obj |-> o, handle |-> h, fid |-> i]
<1>1. m \in FreeLoc /\ m \in 1..MaxLoc /\ m \notin DOMAIN locs
  <2>1. FreeLoc \in SUBSET (1..MaxLoc) /\ MaxLoc \in Nat
    BY ConstantsOk DEF FreeLoc
  <2>2. m \in FreeLoc
    BY <2>1, FirstPosition
  <2> QED
    BY <2>2 DEF FreeLoc
<1>2. rec.obj = o /\ rec.handle = h
  OBVIOUS
<1>3. l = Extended(locs, m, rec)
  BY DEF WithLoc
<1> HIDE DEF m, rec
<1>4. IsExtension(l, locs, m, rec)
  BY <1>3, ExtendedOk
<1>5. /\ DOMAIN l = DOMAIN locs \cup {m} /\ l = [y \in DOMAIN l |-> l[y]]
      /\ l[m] = rec /\ \A k \in DOMAIN locs : l[k] = locs[k]
  BY <1>1, <1>4 DEF IsExtension
<1>6. Locators(l, u)
  <2>1. \A k \in DOMAIN l : l[k].obj \in DOMAIN u
    BY <1>2, <1>5 DEF Locators
  <2> QED
    BY <1>1, <1>5, <2>1 DEF Locators
<1>7. MadeLoc(l, m, o, h)
  BY <1>1, <1>2, <1>5 DEF MadeLoc
<1> QED
  BY <1>6, <1>7

-----------------------------------------------------------------------------
(* The invariant *)

\* The object of the locator k is not in the hierarchy any more, nor its Handle.
Outdated(t, h, l, k) == l[k].handle \notin DOMAIN h /\ ~LinkedIn(t, l[k].obj)

\* The locator k points at the Handle of its object, or is out of date.
FitsIn(t, h, at, l, k) ==
    \/ l[k].handle \in DOMAIN at /\ at[l[k].handle] = l[k].obj
    \/ Outdated(t, h, l, k)

\* The locator k has the Handle of its object, which is in Z.
LeftBehind(at, l, k, Z) ==
    l[k].handle \in DOMAIN at /\ at[l[k].handle] = l[k].obj /\ l[k].obj \in Z

\* The locators S among l fit the objects t and the Handles h.
InStep(t, h, l, S) ==
    \E at : Match(t, h, at) /\ \A k \in S : FitsIn(t, h, at, l, k)

TreesInv ==
    /\ Objects(obj)
    /\ Handles(handle)
    /\ Locators(locs, obj)
    /\ InStep(obj, handle, locs, Used)

\* The locators that fitted do so still, if their objects stay with their
\* Handles, or go with them.
LEMMA StillInStep ==
    ASSUME NEW t, Objects(t), NEW h, NEW at, Match(t, h, at),
           NEW l, NEW S, \A k \in S : FitsIn(t, h, at, l, k),
           NEW Z, ClosedIn(Z, t), NEW u, KeepsObjects(u, t, Z),
           NEW g, KeepsHandles(g, h, at, Z),
           \A k \in S : Outdated(t, h, l, k) => Outdated(u, g, l, k),
           \A k \in S : LeftBehind(at, l, k, Z) => Outdated(u, g, l, k)
    PROVE  \E bt : /\ Match(u, g, bt) /\ PartOf(bt, at, Z)
                   /\ \A k \in S : FitsIn(u, g, bt, l, k)
<1>1. TreeOk(t, MaxObject) /\ MaxObject \in Nat
  BY ConstantsOk DEF Objects
<1>2. PICK bt : Match(u, g, bt) /\ PartOf(bt, at, Z)
  BY <1>1, MatchKept
<1>3. \A k \in S : FitsIn(u, g, bt, l, k)
  BY <1>2 DEF FitsIn, PartOf, LeftBehind
<1> QED
  BY <1>2, <1>3

\* So does a new locator j for an object c that is found by its name, with the
\* Handle found by that name.
LEMMA AdoptedInStep ==
    ASSUME NEW t, Objects(t), NEW h, Handles(h), NEW at, Match(t, h, at),
           NEW l, NEW S, \A k \in S : FitsIn(t, h, at, l, k),
           NEW p \in DOMAIN at, NEW c \in DOMAIN t, NEW x \in DOMAIN h,
           Alike(t, h, at, p, c, x),
           NEW m, NEW j, m[j].obj = c, m[j].handle = x, \A k \in S : m[k] = l[k]
    PROVE  InStep(t, h, m, S \cup {j})
<1>1. TreeOk(t, MaxObject) /\ MaxObject \in Nat /\ TreeOk(h, MaxHandle) /\ MaxHandle \in Nat
  BY ConstantsOk DEF Objects, Handles
<1>2. PICK bt : Match(t, h, bt) /\ MoreThan(bt, at, x, c)
  BY <1>1, MatchMore
<1>3. \A k \in S : FitsIn(t, h, bt, m, k)
  BY <1>2 DEF FitsIn, Outdated, MoreThan
<1>4. FitsIn(t, h, bt, m, j)
  BY <1>2 DEF FitsIn, Outdated, MoreThan
<1> QED
  BY <1>2, <1>3, <1>4 DEF InStep

\* A locator that passes the check and may be used has the Handle of its object.
LEMMA HandleOfUsed ==
    ASSUME Careful, NEW at, Match(obj, handle, at),
           \A k \in Used : FitsIn(obj, handle, at, locs, k),
           NEW k, Valid(k), MayUse(k)
    PROVE  /\ k \in Used
           /\ locs[k].handle \in DOMAIN at /\ locs[k].handle \in DOMAIN handle
           /\ at[locs[k].handle] = locs[k].obj
           /\ LinkedIn(obj, locs[k].obj) /\ locs[k].obj \in DOMAIN obj
<1>1. k \in Used /\ locs[k].handle \in DOMAIN handle
  BY DEF Valid, MayUse, Used
<1>2. locs[k].handle \in DOMAIN at /\ at[locs[k].handle] = locs[k].obj
  BY <1>1 DEF FitsIn, Outdated
<1> QED
  BY <1>1, <1>2 DEF Match, LinkedIn

-----------------------------------------------------------------------------
(* The calls keep the invariant *)

\* Nothing is in the empty set.
LEMMA NothingClosed == \A t : ClosedIn({}, t)
BY DEF ClosedIn

\* What has only been added to is as it was.
LEMMA GrownKeeps ==
    /\ \A t, u : (\A y \in DOMAIN t : u[y] = t[y]) /\ SameLinks(u, t) => KeepsObjects(u, t, {})
    /\ \A h, g, at : DOMAIN at \subseteq DOMAIN h /\ DOMAIN h \subseteq DOMAIN g
                     /\ (\A y \in DOMAIN h : g[y] = h[y]) => KeepsHandles(g, h, at, {})
BY DEF KeepsObjects, SameLinks, KeepsHandles

\* What there was before the Handle x was made for a call.
LEMMA GrownInStep ==
    ASSUME Objects(obj), Locators(locs, obj),
           NEW at, Match(obj, handle, at), \A k \in Used : FitsIn(obj, handle, at, locs, k),
           NEW u, \A y \in DOMAIN obj : u[y] = obj[y], SameLinks(u, obj),
           NEW g, NEW x, NEW p, NEW n, GrownBy(g, handle, x, p, n),
           x \in DOMAIN handle \/ \A k \in DOMAIN locs : locs[k].handle # x
    PROVE  \E bt : /\ Match(u, g, bt) /\ PartOf(bt, at, {})
                   /\ \A k \in Used : FitsIn(u, g, bt, locs, k)
<1>1. Used \subseteq DOMAIN locs /\ \A k \in Used : locs[k].obj \in DOMAIN obj
  BY DEF Used, Locators
<1>2. KeepsObjects(u, obj, {}) /\ ClosedIn({}, obj)
  BY GrownKeeps, NothingClosed
<1>3. DOMAIN at \subseteq DOMAIN handle
  BY DEF Match
<1>4. KeepsHandles(g, handle, at, {})
  <2>1. DOMAIN handle \subseteq DOMAIN g /\ \A y \in DOMAIN handle : g[y] = handle[y]
    BY DEF GrownBy
  <2> QED
    BY <1>3, <2>1, GrownKeeps
<1>5. \A k \in Used : Outdated(obj, handle, locs, k) => Outdated(u, g, locs, k)
  BY <1>1 DEF GrownBy, SameLinks, Outdated
<1>6. \A k \in Used : ~LeftBehind(at, locs, k, {})
  BY DEF LeftBehind
<1> QED
  BY <1>2, <1>4, <1>5, <1>6, StillInStep

\* datFind
LEMMA FindKeeps ==
    ASSUME Careful, TreesInv, NEW k, NEW n \in Name, DatFind(k, n)
    PROVE  TreesInv'
<1>1. PICK at : Match(obj, handle, at) /\ \A j \in Used : FitsIn(obj, handle, at, locs, j)
  BY DEF TreesInv, InStep
<1>2. Objects(obj) /\ Handles(handle) /\ Locators(locs, obj)
  BY DEF TreesInv
<1> DEFINE p == locs[k].handle
           x == HandleFor(p, n)
<1>3. PICK c \in Child(obj, locs[k].obj, n) :
           handle' = WithHandle(p, n) /\ locs' = WithLoc(c, x, locs[k].fid)
  BY DEF DatFind
<1>4. /\ Valid(k) /\ MayUse(k) /\ FreeLoc # {} /\ FreeHandle # {}
      /\ obj' = obj /\ renamed' = renamed
  BY DEF DatFind
<1>5. p \in DOMAIN at /\ p \in DOMAIN handle /\ at[p] = locs[k].obj
  BY <1>1, <1>4, HandleOfUsed
<1>6. c \in DOMAIN obj /\ obj[c].up = at[p] /\ obj[c].name = n
  BY <1>3, <1>5 DEF Child
<1> HIDE DEF x, p
<1>7. /\ Handles(handle') /\ GrownBy(handle', handle, x, p, n)
      /\ x \in DOMAIN handle \/ \A j \in DOMAIN locs : locs[j].handle # x
  BY <1>2, <1>3, <1>4, <1>5, WithHandleOk DEF x
<1>8. PICK bt : /\ Match(obj, handle', bt) /\ PartOf(bt, at, {})
                /\ \A j \in Used : FitsIn(obj, handle', bt, locs, j)
  <2>1. SameLinks(obj, obj) /\ \A y \in DOMAIN obj : obj[y] = obj[y]
    BY DEF SameLinks
  <2> QED
    BY <1>1, <1>2, <1>7, <2>1, GrownInStep
<1>9. p \in DOMAIN bt /\ x \in DOMAIN handle' /\ Alike(obj, handle', bt, p, c, x)
  BY <1>5, <1>6, <1>7, <1>8 DEF PartOf, GrownBy, Alike
<1>10. Locators(locs', obj) /\ \E m : MadeLoc(locs', m, c, x)
  BY <1>2, <1>3, <1>4, <1>6, WithLocOk
<1>11. PICK m : MadeLoc(locs', m, c, x)
  BY <1>10
<1>12. locs'[m].obj = c /\ locs'[m].handle = x /\ \A j \in Used : locs'[j] = locs[j]
  BY <1>11 DEF MadeLoc, Used
<1>13. InStep(obj, handle', locs', Used \cup {m})
  BY <1>2, <1>6, <1>7, <1>8, <1>9, <1>12, AdoptedInStep
<1>14. Used' \subseteq Used \cup {m}
  BY <1>4, <1>11 DEF Used, MadeLoc
<1>15. InStep(obj', handle', locs', Used')
  BY <1>4, <1>13, <1>14 DEF InStep
<1> QED
  BY <1>2, <1>4, <1>7, <1>10, <1>15 DEF TreesInv

\* datIndex
LEMMA IndexKeeps ==
    ASSUME Careful, TreesInv, NEW k, NEW i, DatIndex(k, i)
    PROVE  TreesInv'
BY FindKeeps DEF DatIndex

\* A new locator for an object that is in the hierarchy, with its Handle.
LEMMA MadeInStep ==
    ASSUME TreesInv, NEW at, Match(obj, handle, at),
           \A j \in Used : FitsIn(obj, handle, at, locs, j),
           NEW h \in DOMAIN at, NEW i, FreeLoc # {},
           locs' = WithLoc(at[h], h, i), UNCHANGED <<obj, handle, renamed>>
    PROVE  TreesInv'
<1>1. Objects(obj) /\ Handles(handle) /\ Locators(locs, obj)
  BY DEF TreesInv
<1>2. at[h] \in DOMAIN obj
  BY DEF Match, LinkedIn
<1>3. Locators(locs', obj) /\ \E m : MadeLoc(locs', m, at[h], h)
  BY <1>1, <1>2, WithLocOk
<1>4. PICK m : MadeLoc(locs', m, at[h], h)
  BY <1>3
<1>5. Used' \subseteq Used \cup {m}
  BY <1>4 DEF Used, MadeLoc
<1>6. ASSUME NEW j \in Used PROVE FitsIn(obj, handle, at, locs', j)
  <2>1. locs'[j] = locs[j]
    BY <1>4, <1>6 DEF MadeLoc, Used
  <2> QED
    BY <1>6, <2>1 DEF FitsIn, Outdated
<1>7. FitsIn(obj, handle, at, locs', m)
  BY <1>4 DEF FitsIn, MadeLoc
<1>8. InStep(obj, handle, locs', Used')
  BY <1>5, <1>6, <1>7 DEF InStep
<1> QED
  BY <1>1, <1>3, <1>8 DEF TreesInv

\* datClone
LEMMA CloneKeeps ==
    ASSUME Careful, TreesInv, NEW k, DatClone(k)
    PROVE  TreesInv'
<1>1. PICK at : Match(obj, handle, at) /\ \A j \in Used : FitsIn(obj, handle, at, locs, j)
  BY DEF TreesInv, InStep
<1>2. Valid(k) /\ MayUse(k) /\ FreeLoc # {} /\ UNCHANGED <<obj, handle, renamed>>
  BY DEF DatClone
<1>3. locs[k].handle \in DOMAIN at /\ at[locs[k].handle] = locs[k].obj
  BY <1>1, <1>2, HandleOfUsed
<1>4. locs' = WithLoc(at[locs[k].handle], locs[k].handle, locs[k].fid)
  BY <1>3 DEF DatClone
<1> QED
  BY <1>1, <1>2, <1>3, <1>4, MadeInStep

\* datParen
LEMMA ParenKeeps ==
    ASSUME Careful, TreesInv, NEW k, DatParen(k)
    PROVE  TreesInv'
<1>1. PICK at : Match(obj, handle, at) /\ \A j \in Used : FitsIn(obj, handle, at, locs, j)
  BY DEF TreesInv, InStep
<1>2. Valid(k) /\ MayUse(k) /\ FreeLoc # {} /\ locs[k].obj \notin Root /\ UNCHANGED <<obj, handle, renamed>>
  BY DEF DatParen
<1> DEFINE h == locs[k].handle
<1>3. h \in DOMAIN at /\ at[h] = locs[k].obj
  BY <1>1, <1>2, HandleOfUsed
<1>4. h \notin Root
  BY <1>1, <1>2, <1>3 DEF Match
<1>5. handle[h].up \in DOMAIN at /\ obj[at[h]].up = at[handle[h].up]
  BY <1>1, <1>3, <1>4 DEF Match
<1>6. locs' = WithLoc(at[handle[h].up], handle[h].up, locs[k].fid)
  BY <1>3, <1>5 DEF DatParen
<1> QED
  BY <1>1, <1>2, <1>5, <1>6, MadeInStep

\* The locators l are for objects of t.
PointInto(l, t) == \A k \in DOMAIN l : l[k].obj \in DOMAIN t

\* The objects of the hierarchy are the same in v as in u.
SameObjects(v, u) ==
    \A y : /\ LinkedIn(v, y) <=> LinkedIn(u, y)
           /\ LinkedIn(u, y) => v[y].up = u[y].up /\ v[y].name = u[y].name

\* Freeing objects that are not in use keeps those of the hierarchy.
LEMMA FreedKeeps ==
    ASSUME NEW u, Objects(u), NEW l, PointInto(l, u), NEW v, v = InUse(u, l)
    PROVE  Objects(v) /\ PointInto(l, v) /\ SameObjects(v, u)
<1>1. /\ Objects(v) /\ SameHierarchy(v, u)
      /\ \A k \in DOMAIN l : l[k].obj \in DOMAIN v
      /\ \A y \in DOMAIN u : LinkedIn(u, y) => y \in DOMAIN v /\ v[y].name = u[y].name
      /\ DOMAIN v \subseteq DOMAIN u
  BY InUseOk DEF PointInto
<1>2. \A y : LinkedIn(v, y) <=> LinkedIn(u, y)
  BY <1>1 DEF SameHierarchy, LinkedIn
<1>3. \A y : LinkedIn(u, y) => v[y].up = u[y].up /\ v[y].name = u[y].name
  BY <1>1, <1>2 DEF SameHierarchy, LinkedIn
<1> QED
  BY <1>1, <1>2, <1>3 DEF SameObjects, PointInto

\* What is kept by a step is kept if what is not in use is then freed.
LEMMA KeptToo ==
    ASSUME NEW t, NEW u, NEW v, NEW Z, KeepsObjects(u, t, Z), SameObjects(v, u)
    PROVE  KeepsObjects(v, t, Z)
BY DEF KeepsObjects, SameObjects

\* datAnnul
LEMMA AnnulKeeps ==
    ASSUME TreesInv, NEW k, DatAnnul(k)
    PROVE  TreesInv'
<1>1. PICK at : Match(obj, handle, at) /\ \A j \in Used : FitsIn(obj, handle, at, locs, j)
  BY DEF TreesInv, InStep
<1>2. Objects(obj) /\ Handles(handle) /\ Locators(locs, obj)
  BY DEF TreesInv
<1>3. /\ locs' = Restrict(locs, DOMAIN locs \ {k}) /\ obj' = InUse(obj, locs')
      /\ renamed' = renamed \ {k} /\ handle' = handle
  BY DEF DatAnnul
<1>4. /\ DOMAIN locs' = DOMAIN locs \ {k} /\ \A j \in DOMAIN locs' : locs'[j] = locs[j]
      /\ locs' = [j \in DOMAIN locs' |-> locs'[j]]
  BY <1>3 DEF Restrict
<1>5. PointInto(locs', obj)
  BY <1>2, <1>4 DEF Locators, PointInto
<1>6. Objects(obj') /\ PointInto(locs', obj') /\ SameObjects(obj', obj)
  BY <1>2, <1>3, <1>5, FreedKeeps
<1>7. Locators(locs', obj') /\ KeepsObjects(obj', obj, {})
  BY <1>2, <1>4, <1>6 DEF Locators, PointInto, KeepsObjects, SameObjects
<1>8. KeepsHandles(handle, handle, at, {})
  BY <1>1 DEF KeepsHandles, Match
<1>9. PICK bt : Match(obj', handle, bt) /\ \A j \in Used : FitsIn(obj', handle, bt, locs, j)
  <2>1. \A j \in Used : Outdated(obj, handle, locs, j) => Outdated(obj', handle, locs, j)
    BY <1>6 DEF Outdated, SameObjects
  <2>2. \A j \in Used : ~LeftBehind(at, locs, j, {})
    BY DEF LeftBehind
  <2> QED
    BY <1>1, <1>2, <1>7, <1>8, <2>1, <2>2, NothingClosed, StillInStep
<1>10. Used' \subseteq Used /\ \A j \in Used' : locs'[j] = locs[j]
  BY <1>3, <1>4 DEF Used
<1>11. InStep(obj', handle', locs', Used')
  BY <1>3, <1>9, <1>10 DEF InStep, FitsIn, Outdated
<1> QED
  BY <1>2, <1>3, <1>6, <1>7, <1>11 DEF TreesInv

\* There is an object for the next one.
LEMMA RoomForOne == RoomFor(1) => (1..MaxObject) \ DOMAIN obj # {}
BY FS_EmptySet DEF RoomFor

\* datNew
LEMMA NewKeeps ==
    ASSUME Careful, TreesInv, NEW k, NEW n \in Name, NEW s \in BOOLEAN, DatNew(k, n, s)
    PROVE  TreesInv'
<1>1. PICK at : Match(obj, handle, at) /\ \A j \in Used : FitsIn(obj, handle, at, locs, j)
  BY DEF TreesInv, InStep
<1>2. Objects(obj) /\ Handles(handle) /\ Locators(locs, obj)
  BY DEF TreesInv
<1>3. /\ Valid(k) /\ MayUse(k) /\ Vacant(k, n) /\ RoomFor(1) /\ FreeHandle # {}
      /\ obj' = Created(obj, locs[k].obj, n, s) /\ handle' = WithHandle(locs[k].handle, n)
      /\ locs' = locs /\ renamed' = renamed
  BY DEF DatNew
<1> DEFINE p == locs[k].handle
           x == HandleFor(p, n)
           o == locs[k].obj
           c == Min(1..MaxObject \ DOMAIN obj)
<1>4. p \in DOMAIN handle /\ o \in DOMAIN obj
  BY <1>1, <1>3, HandleOfUsed
<1>5. Child(obj, o, n) = {} /\ (1..MaxObject) \ DOMAIN obj # {}
  BY <1>3, RoomForOne DEF Vacant
<1> HIDE DEF p, o, x, c
<1>6. Objects(obj') /\ GrownBy(obj', obj, c, o, n) /\ SameLinks(obj', obj)
  BY <1>2, <1>3, <1>4, <1>5, CreatedOk DEF o, c
<1>7. /\ Handles(handle') /\ GrownBy(handle', handle, x, p, n)
      /\ x \in DOMAIN handle \/ \A j \in DOMAIN locs : locs[j].handle # x
  BY <1>2, <1>3, <1>4, WithHandleOk DEF x, p
<1>8. \A y \in DOMAIN obj : obj'[y] = obj[y]
  BY <1>6 DEF GrownBy
<1>9. PICK bt : Match(obj', handle', bt) /\ \A j \in Used : FitsIn(obj', handle', bt, locs, j)
  BY <1>1, <1>2, <1>6, <1>7, <1>8, GrownInStep
<1>10. InStep(obj', handle', locs', Used')
  <2>1. Used' = Used
    BY <1>3 DEF Used
  <2> QED
    BY <1>3, <1>9, <2>1 DEF InStep
<1>11. Locators(locs', obj')
  BY <1>2, <1>3, <1>6 DEF Locators, GrownBy
<1> QED
  BY <1>6, <1>7, <1>10, <1>11 DEF TreesInv

\* What is cut off at c is kept but for what is below c.
LEMMA CutKeeps ==
    ASSUME NEW t, Objects(t), NEW c \in DOMAIN t \ Root, NEW u, CutOff(u, t, c), LinksLess(u, t, c)
    PROVE  KeepsObjects(u, t, Below(t, c)) /\ ClosedIn(Below(t, c), t)
<1>1. TreeOk(t, MaxObject) /\ MaxObject \in Nat
  BY ConstantsOk DEF Objects
<1>2. c \in Below(t, c) /\ ClosedIn(Below(t, c), t)
  BY <1>1, BelowOk DEF ClosedIn
<1>3. KeepsObjects(u, t, Below(t, c))
  BY <1>2 DEF KeepsObjects, CutOff, LinksLess
<1> QED
  BY <1>2, <1>3

\* The Handle and the object of one name in p are erased, with all they hold.
LEMMA ErasedInStep ==
    ASSUME Objects(obj), Handles(handle),
           NEW at, Match(obj, handle, at), \A k \in Used : FitsIn(obj, handle, at, locs, k),
           NEW p \in DOMAIN at, NEW c \in DOMAIN obj, obj[c].up = at[p],
           NEW g, g = EraseHandle(p, obj[c].name),
           NEW u, KeepsObjects(u, obj, Below(obj, c)), ClosedIn(Below(obj, c), obj),
           \A y \in DOMAIN obj : LinkedIn(u, y) => LinkedIn(obj, y) /\ y \notin Below(obj, c),
           Locators(locs, obj)
    PROVE  /\ Handles(g)
           /\ \E bt : Match(u, g, bt) /\ \A k \in Used : FitsIn(u, g, bt, locs, k)
<1> DEFINE Z == Below(obj, c)
           E == ErasedFrom(handle, p, obj[c].name)
<1>1. TreeOk(obj, MaxObject) /\ MaxObject \in Nat /\ TreeOk(handle, MaxHandle) /\ MaxHandle \in Nat
  BY ConstantsOk DEF Objects, Handles
<1> HIDE DEF E
<1>2. Shadow(at, E, Z) /\ E \cap Root = {}
  BY <1>1, MatchBelow DEF E
<1> HIDE DEF Z
<1>3. Handles(g) /\ Less(g, handle, E)
  BY <1>2, EraseHandleOk DEF E
<1>4. KeepsHandles(g, handle, at, Z)
  <2>1. DOMAIN at \subseteq DOMAIN handle
    BY DEF Match
  <2> QED
    BY <1>2, <1>3, <2>1 DEF KeepsHandles, Shadow, Less
<1>5. \A k \in Used : k \in DOMAIN locs /\ locs[k].obj \in DOMAIN obj
  BY DEF Used, Locators
<1>6. \A k \in Used : Outdated(obj, handle, locs, k) => Outdated(u, g, locs, k)
  BY <1>3, <1>5 DEF Outdated, Less
<1>7. \A k \in Used : LeftBehind(at, locs, k, Z) => Outdated(u, g, locs, k)
  BY <1>2, <1>3, <1>5 DEF LeftBehind, Outdated, Z, Shadow, Less
<1>8. KeepsObjects(u, obj, Z) /\ ClosedIn(Z, obj)
  BY DEF Z
<1>9. \E bt : /\ Match(u, g, bt) /\ PartOf(bt, at, Z)
              /\ \A k \in Used : FitsIn(u, g, bt, locs, k)
  BY <1>4, <1>6, <1>7, <1>8, StillInStep
<1> QED
  BY <1>3, <1>9

\* datErase
LEMMA EraseKeeps ==
    ASSUME Careful, TreesInv, NEW k, NEW n \in Name, DatErase(k, n)
    PROVE  TreesInv'
<1>1. PICK at : Match(obj, handle, at) /\ \A j \in Used : FitsIn(obj, handle, at, locs, j)
  BY DEF TreesInv, InStep
<1>2. Objects(obj) /\ Handles(handle) /\ Locators(locs, obj)
  BY DEF TreesInv
<1> DEFINE p == locs[k].handle
<1>3. PICK c \in Child(obj, locs[k].obj, n) : obj' = InUse(Cut(obj, c), locs)
  BY DEF DatErase
<1>4. /\ Valid(k) /\ MayUse(k) /\ handle' = EraseHandle(p, n)
      /\ locs' = locs /\ renamed' = renamed
  BY DEF DatErase
<1>5. p \in DOMAIN at /\ at[p] = locs[k].obj /\ locs[k].obj \in DOMAIN obj
  BY <1>1, <1>4, HandleOfUsed
<1>6. c \in DOMAIN obj /\ obj[c].up = at[p] /\ obj[c].name = n
  BY <1>3, <1>5 DEF Child
<1>7. c \notin Root
  <2>1. TreeOk(obj, MaxObject) /\ MaxObject \in Nat
    BY <1>2, ConstantsOk DEF Objects
  <2> QED
    BY <1>5, <1>6, <2>1, RootsOnTop DEF HasUp
<1> DEFINE u == Cut(obj, c)
           Z == Below(obj, c)
<1> HIDE DEF u, p
<1>8. Objects(u) /\ CutOff(u, obj, c) /\ LinksLess(u, obj, c)
  BY <1>2, <1>6, <1>7, CutOk DEF u
<1>9. KeepsObjects(u, obj, Z) /\ ClosedIn(Z, obj)
  BY <1>2, <1>6, <1>7, <1>8, CutKeeps
<1>10. PointInto(locs, u)
  BY <1>2, <1>8 DEF PointInto, Locators, CutOff
<1>11. Objects(obj') /\ PointInto(locs, obj') /\ SameObjects(obj', u)
  BY <1>3, <1>8, <1>10, FreedKeeps DEF u
<1>12. KeepsObjects(obj', obj, Z)
  BY <1>9, <1>11, KeptToo
<1>13. \A y \in DOMAIN obj : LinkedIn(obj', y) => LinkedIn(obj, y) /\ y \notin Z
  BY <1>8, <1>11 DEF SameObjects, LinksLess
<1> HIDE DEF Z
<1>14. Handles(handle') /\ \E bt : Match(obj', handle', bt) /\ \A j \in Used : FitsIn(obj', handle', bt, locs, j)
  BY <1>1, <1>2, <1>4, <1>5, <1>6, <1>9, <1>12, <1>13, ErasedInStep DEF Z
<1>15. InStep(obj', handle', locs', Used')
  <2>1. Used' = Used
    BY <1>4 DEF Used
  <2> QED
    BY <1>4, <1>14, <2>1 DEF InStep
<1>16. Locators(locs', obj')
  BY <1>2, <1>4, <1>11 DEF Locators, PointInto
<1> QED
  BY <1>11, <1>14, <1>15, <1>16 DEF TreesInv

\* A copy of the object of k is put into that of p.
LEMMA CopyMade ==
    ASSUME Careful, TreesInv, NEW k, NEW p, NEW n \in Name,
           Valid(k), MayUse(k), Valid(p), MayUse(p), Vacant(p, n), Outside(k, p),
           RoomFor(Cardinality(Below(obj, locs[k].obj))),
           NEW u, u = Copied(obj, locs[k].obj, locs[p].obj, n)
    PROVE  /\ Objects(u)
           /\ DOMAIN obj \subseteq DOMAIN u
           /\ \A y \in DOMAIN obj : u[y] = obj[y]
           /\ SameLinks(u, obj)
           /\ \A y \in DOMAIN obj : y \in Below(u, locs[k].obj) <=> y \in Below(obj, locs[k].obj)
           /\ MadeCopy(obj, u, locs[k].obj, locs[p].obj, n)
<1>1. PICK at : Match(obj, handle, at) /\ \A j \in Used : FitsIn(obj, handle, at, locs, j)
  BY DEF TreesInv, InStep
<1>2. /\ locs[k].obj \in DOMAIN obj /\ locs[p].obj \in DOMAIN obj
      /\ LinkedIn(obj, locs[p].obj)
  BY <1>1, HandleOfUsed
<1>3. Objects(obj)
  BY DEF TreesInv
<1>4. locs[p].obj \notin Below(obj, locs[k].obj) /\ Child(obj, locs[p].obj, n) = {}
  BY DEF Outside, Vacant
<1>5. Cardinality(1..MaxObject \ DOMAIN obj) >= Cardinality(Below(obj, locs[k].obj))
  BY DEF RoomFor
<1> QED
  BY <1>2, <1>3, <1>4, <1>5, CopiedOk

\* datCopy, and datMove when it stops half way.
LEMMA CopyKeeps ==
    ASSUME Careful, TreesInv, NEW k, NEW p, NEW n \in Name,
           Valid(k), MayUse(k), Valid(p), MayUse(p), Vacant(p, n), Outside(k, p),
           RoomFor(Cardinality(Below(obj, locs[k].obj))),
           obj' = Copied(obj, locs[k].obj, locs[p].obj, n),
           UNCHANGED <<handle, locs, renamed>>
    PROVE  TreesInv'
<1>1. PICK at : Match(obj, handle, at) /\ \A j \in Used : FitsIn(obj, handle, at, locs, j)
  BY DEF TreesInv, InStep
<1>2. Objects(obj) /\ Handles(handle) /\ Locators(locs, obj)
  BY DEF TreesInv
<1>3. /\ Objects(obj') /\ DOMAIN obj \subseteq DOMAIN obj'
      /\ \A y \in DOMAIN obj : obj'[y] = obj[y]
      /\ SameLinks(obj', obj)
  BY CopyMade
<1>4. KeepsObjects(obj', obj, {}) /\ ClosedIn({}, obj)
  BY <1>3, GrownKeeps, NothingClosed
<1>5. KeepsHandles(handle, handle, at, {})
  BY <1>1 DEF KeepsHandles, Match
<1>6. \A j \in Used : Outdated(obj, handle, locs, j) => Outdated(obj', handle, locs, j)
  BY <1>2, <1>3 DEF Outdated, SameLinks, Locators, Used
<1>7. \A j \in Used : ~LeftBehind(at, locs, j, {})
  BY DEF LeftBehind
<1>8. PICK bt : Match(obj', handle, bt) /\ \A j \in Used : FitsIn(obj', handle, bt, locs, j)
  BY <1>1, <1>2, <1>4, <1>5, <1>6, <1>7, StillInStep
<1>9. InStep(obj', handle', locs', Used')
  <2>1. Used' = Used
    BY DEF Used
  <2> QED
    BY <1>8, <2>1 DEF InStep
<1>10. Locators(locs', obj')
  BY <1>2, <1>3 DEF Locators
<1> QED
  BY <1>2, <1>3, <1>9, <1>10 DEF TreesInv

\* datCcopy
LEMMA CcopyKeeps ==
    ASSUME Careful, TreesInv, NEW k, NEW p, NEW n \in Name, DatCcopy(k, p, n)
    PROVE  TreesInv'
<1>1. PICK at : Match(obj, handle, at) /\ \A j \in Used : FitsIn(obj, handle, at, locs, j)
  BY DEF TreesInv, InStep
<1>2. Objects(obj) /\ Handles(handle) /\ Locators(locs, obj)
  BY DEF TreesInv
<1> DEFINE hp == locs[p].handle
           x == HandleFor(hp, n)
           o == locs[p].obj
           c == Min(1..MaxObject \ DOMAIN obj)
<1>3. /\ Valid(k) /\ MayUse(k) /\ Valid(p) /\ MayUse(p) /\ Vacant(p, n)
      /\ RoomFor(1) /\ FreeHandle # {} /\ FreeLoc # {}
      /\ obj' = Created(obj, o, n, Structure(k)) /\ handle' = WithHandle(hp, n)
      /\ locs' = WithLoc(c, x, locs[p].fid) /\ renamed' = renamed
  BY DEF DatCcopy
<1>4. hp \in DOMAIN at /\ hp \in DOMAIN handle /\ at[hp] = o /\ o \in DOMAIN obj
  BY <1>1, <1>3, HandleOfUsed
<1>5. Structure(k) \in BOOLEAN
  <2>1. locs[k].obj \in DOMAIN obj
    BY <1>1, <1>3, HandleOfUsed
  <2> QED
    BY <1>2, <2>1 DEF Structure, Objects, ObjectRecord
<1>6. Child(obj, o, n) = {} /\ (1..MaxObject) \ DOMAIN obj # {}
  BY <1>3, RoomForOne DEF Vacant
<1> HIDE DEF hp, o, x, c
<1>7. Objects(obj') /\ c \notin DOMAIN obj /\ GrownBy(obj', obj, c, o, n) /\ SameLinks(obj', obj)
  BY <1>2, <1>3, <1>4, <1>5, <1>6, CreatedOk DEF c
<1>8. /\ Handles(handle') /\ GrownBy(handle', handle, x, hp, n)
      /\ x \in DOMAIN handle \/ \A j \in DOMAIN locs : locs[j].handle # x
  BY <1>2, <1>3, <1>4, WithHandleOk DEF x
<1>9. DOMAIN obj \subseteq DOMAIN obj' /\ c \in DOMAIN obj' /\ \A y \in DOMAIN obj : obj'[y] = obj[y]
  BY <1>7 DEF GrownBy
<1>10. PICK bt : /\ Match(obj', handle', bt) /\ PartOf(bt, at, {})
                 /\ \A j \in Used : FitsIn(obj', handle', bt, locs, j)
  BY <1>1, <1>2, <1>7, <1>8, <1>9, GrownInStep
<1>11. hp \in DOMAIN bt /\ x \in DOMAIN handle' /\ Alike(obj', handle', bt, hp, c, x)
  BY <1>4, <1>7, <1>8, <1>10 DEF PartOf, GrownBy, Alike
<1>12. Locators(locs', obj') /\ \E m : MadeLoc(locs', m, c, x)
  BY <1>2, <1>3, <1>9, WithLocOk
<1>13. PICK m : MadeLoc(locs', m, c, x)
  BY <1>12
<1>14. locs'[m].obj = c /\ locs'[m].handle = x /\ \A j \in Used : locs'[j] = locs[j]
  BY <1>13 DEF MadeLoc, Used
<1>15. InStep(obj', handle', locs', Used \cup {m})
  BY <1>7, <1>8, <1>9, <1>10, <1>11, <1>14, AdoptedInStep
<1>16. Used' \subseteq Used \cup {m}
  BY <1>3, <1>13 DEF Used, MadeLoc
<1>17. InStep(obj', handle', locs', Used')
  BY <1>15, <1>16 DEF InStep
<1> QED
  BY <1>7, <1>8, <1>12, <1>17 DEF TreesInv

\* A locator k that an object is moved with, which no other is for or is below,
\* is dropped, or not used again.
LEMMA DroppedInStep ==
    ASSUME Careful, Objects(obj), Locators(locs, obj),
           NEW at, Match(obj, handle, at), \A j \in Used : FitsIn(obj, handle, at, locs, j),
           NEW k, MayMove(k),
           NEW Z, Z = Below(obj, locs[k].obj), ClosedIn(Z, obj),
           NEW u, KeepsObjects(u, obj, Z), \A y \in DOMAIN obj : LinkedIn(u, y) => LinkedIn(obj, y),
           NEW g, KeepsHandles(g, handle, at, Z),
           \A j \in DOMAIN locs : locs[j].handle \in DOMAIN g => locs[j].handle \in DOMAIN handle,
           NEW l, NEW S, S \subseteq Used \ {k}, \A j \in S : l[j] = locs[j]
    PROVE  InStep(u, g, l, S)
<1>1. \A j \in S : j \in Used /\ j \in DOMAIN locs \ {k} /\ locs[j].obj \in DOMAIN obj
  BY DEF Used, Locators
<1>2. \A j \in S : FitsIn(obj, handle, at, locs, j)
  BY <1>1
<1>3. \A j \in S : Outdated(obj, handle, locs, j) => Outdated(u, g, locs, j)
  BY <1>1 DEF Outdated
<1>4. \A j \in S : ~LeftBehind(at, locs, j, Z)
  BY <1>1 DEF LeftBehind, MayMove
<1>5. PICK bt : Match(u, g, bt) /\ \A j \in S : FitsIn(u, g, bt, locs, j)
  BY <1>2, <1>3, <1>4, StillInStep
<1> QED
  BY <1>5 DEF InStep, FitsIn, Outdated

\* What is below an object is closed.
LEMMA BelowClosed ==
    ASSUME NEW t, Objects(t), NEW o \in DOMAIN t
    PROVE  ClosedIn(Below(t, o), t) /\ o \in Below(t, o)
<1>1. TreeOk(t, MaxObject) /\ MaxObject \in Nat
  BY ConstantsOk DEF Objects
<1> QED
  BY <1>1, BelowOk DEF ClosedIn

\* An object is put somewhere else, or under another name, in a tree.
LEMMA PlacedOk ==
    ASSUME NEW t, Objects(t), NEW o \in DOMAIN t \ Root, LinkedIn(t, o),
           NEW p \in DOMAIN t, NEW n \in Name, Child(t, p, n) = {},
           p = t[o].up \/ (p \notin Below(t, o) /\ LinkedIn(t, p)),
           NEW u, u \in [DOMAIN t -> ObjectRecord], MovedInto(u, t, o, p, n)
    PROVE  Objects(u) /\ SameLinks(u, t) /\ KeepsObjects(u, t, Below(t, o))
<1>1. TreeOk(t, MaxObject) /\ MaxObject \in Nat
  BY ConstantsOk DEF Objects
<1>2. TreeOk(u, MaxObject) /\ SameLinks(u, t)
  <2>1. CASE p = t[o].up
    BY <1>1, <2>1, RenamedTree
  <2>2. CASE p \notin Below(t, o) /\ LinkedIn(t, p)
    BY <1>1, <2>2, MovedTree
  <2> QED
    BY <2>1, <2>2
<1>3. o \in Below(t, o)
  BY BelowClosed
<1>4. KeepsObjects(u, t, Below(t, o))
  BY <1>2, <1>3 DEF KeepsObjects, SameLinks, MovedInto
<1> QED
  BY <1>2, <1>4 DEF Objects

\* datMove within one file_id
LEMMA MoveLinkKeeps ==
    ASSUME Careful, TreesInv, NEW k, NEW p, NEW n \in Name,
           Movable(k), Valid(p), MayUse(p), Vacant(p, n), Outside(k, p),
           locs' = Restrict(locs, DOMAIN locs \ {k}), MoveLink(k, p, n), renamed' = renamed
    PROVE  TreesInv'
<1>1. PICK at : Match(obj, handle, at) /\ \A j \in Used : FitsIn(obj, handle, at, locs, j)
  BY DEF TreesInv, InStep
<1>2. Objects(obj) /\ Handles(handle) /\ Locators(locs, obj)
  BY DEF TreesInv
<1> DEFINE o == locs[k].obj
           q == locs[p].obj
           u == [obj EXCEPT ![o].up = q, ![o].name = n]
           Z == Below(obj, o)
<1>3. /\ Valid(k) /\ MayUse(k) /\ MayMove(k) /\ o \notin Root
      /\ q \notin Z /\ Child(obj, q, n) = {}
      /\ obj' = InUse(u, locs') /\ handle' = handle
  BY DEF Movable, Outside, Vacant, MoveLink
<1>4. o \in DOMAIN obj /\ LinkedIn(obj, o) /\ q \in DOMAIN obj /\ LinkedIn(obj, q)
  BY <1>1, <1>3, HandleOfUsed
<1>5. /\ DOMAIN u = DOMAIN obj /\ u = [y \in DOMAIN u |-> u[y]]
      /\ \A y \in DOMAIN obj \ {o} : u[y] = obj[y]
      /\ u[o] = [obj[o] EXCEPT !.up = q, !.name = n]
  BY <1>2, <1>4 DEF Objects, ObjectRecord
<1> HIDE DEF u
<1>6. u[o] \in ObjectRecord /\ u[o].up = q /\ u[o].name = n
  <2>1. q \in Nat /\ n \in Nat
    BY <1>2, <1>4, ConstantsOk DEF Objects, TreeOk
  <2>2. obj[o] \in ObjectRecord
    BY <1>2, <1>4 DEF Objects
  <2> QED
    BY <1>5, <2>1, <2>2 DEF ObjectRecord
<1>7. u \in [DOMAIN obj -> ObjectRecord]
  <2>1. \A y \in DOMAIN u : u[y] \in ObjectRecord
    BY <1>2, <1>5, <1>6 DEF Objects
  <2> QED
    BY <1>5, <2>1
<1>8. MovedInto(u, obj, o, q, n)
  BY <1>5, <1>6 DEF MovedInto
<1>9. Objects(u) /\ SameLinks(u, obj) /\ KeepsObjects(u, obj, Z)
  BY <1>2, <1>3, <1>4, <1>7, <1>8, PlacedOk
<1>10. /\ DOMAIN locs' = DOMAIN locs \ {k} /\ \A j \in DOMAIN locs' : locs'[j] = locs[j]
       /\ locs' = [j \in DOMAIN locs' |-> locs'[j]]
  BY DEF Restrict
<1>11. PointInto(locs', u)
  BY <1>2, <1>5, <1>10 DEF Locators, PointInto
<1>12. Objects(obj') /\ PointInto(locs', obj') /\ SameObjects(obj', u)
  BY <1>3, <1>9, <1>11, FreedKeeps
<1>13. KeepsObjects(obj', obj, Z) /\ ClosedIn(Z, obj)
  BY <1>2, <1>4, <1>9, <1>12, KeptToo, BelowClosed
<1>14. \A y \in DOMAIN obj : LinkedIn(obj', y) => LinkedIn(obj, y)
  BY <1>9, <1>12 DEF SameObjects, SameLinks
<1>15. KeepsHandles(handle, handle, at, Z)
  BY <1>1 DEF KeepsHandles, Match
<1>16. Used' \subseteq Used \ {k} /\ \A j \in Used' : locs'[j] = locs[j]
  BY <1>10 DEF Used
<1> HIDE DEF Z
<1>17. InStep(obj', handle, locs', Used')
  BY <1>1, <1>2, <1>3, <1>13, <1>14, <1>15, <1>16, DroppedInStep DEF Z
<1>18. Locators(locs', obj')
  BY <1>2, <1>10, <1>12 DEF Locators, PointInto
<1> QED
  BY <1>2, <1>3, <1>12, <1>17, <1>18 DEF TreesInv

\* datMove between two
LEMMA MoveCopyKeeps ==
    ASSUME Careful, TreesInv, NEW k, NEW p, NEW n \in Name,
           Movable(k), Valid(p), MayUse(p), Vacant(p, n), Outside(k, p),
           locs' = Restrict(locs, DOMAIN locs \ {k}), MoveCopy(k, p, n), renamed' = renamed
    PROVE  TreesInv'
<1>1. PICK at : Match(obj, handle, at) /\ \A j \in Used : FitsIn(obj, handle, at, locs, j)
  BY DEF TreesInv, InStep
<1>2. Objects(obj) /\ Handles(handle) /\ Locators(locs, obj)
  BY DEF TreesInv
<1> DEFINE o == locs[k].obj
           h == locs[k].handle
           v == Copied(obj, o, locs[p].obj, n)
           u == Cut(v, o)
           Z == Below(obj, o)
<1>3. /\ Valid(k) /\ MayUse(k) /\ o \notin Root
      /\ RoomFor(Cardinality(Z)) /\ obj' = InUse(u, locs')
      /\ handle' = EraseHandle(handle[h].up, obj[o].name)
  BY DEF Movable, MoveCopy
<1>4. h \in DOMAIN at /\ at[h] = o /\ o \in DOMAIN obj
  BY <1>1, <1>3, HandleOfUsed
<1>5. handle[h].up \in DOMAIN at /\ obj[o].up = at[handle[h].up]
  <2>1. h \notin Root
    BY <1>1, <1>3, <1>4 DEF Match
  <2> QED
    BY <1>1, <1>4, <2>1 DEF Match
<1>6. /\ Objects(v) /\ DOMAIN obj \subseteq DOMAIN v
      /\ \A y \in DOMAIN obj : v[y] = obj[y]
      /\ SameLinks(v, obj)
      /\ \A y \in DOMAIN obj : y \in Below(v, o) <=> y \in Z
  BY <1>3, CopyMade
<1> HIDE DEF v
<1>7. Objects(u) /\ CutOff(u, v, o) /\ LinksLess(u, v, o)
  BY <1>3, <1>4, <1>6, CutOk
<1> HIDE DEF u
<1>8. \A y \in DOMAIN obj : LinkedIn(u, y) <=> LinkedIn(obj, y) /\ y \notin Z
  BY <1>6, <1>7 DEF LinksLess, SameLinks
<1>9. ClosedIn(Z, obj) /\ o \in Z
  BY <1>2, <1>4, BelowClosed
<1>10. KeepsObjects(u, obj, Z)
  BY <1>6, <1>7, <1>8, <1>9 DEF KeepsObjects, CutOff
<1>11. /\ DOMAIN locs' = DOMAIN locs \ {k} /\ \A j \in DOMAIN locs' : locs'[j] = locs[j]
       /\ locs' = [j \in DOMAIN locs' |-> locs'[j]]
  BY DEF Restrict
<1>12. PointInto(locs', u)
  BY <1>2, <1>6, <1>7, <1>11 DEF Locators, PointInto, CutOff
<1>13. Objects(obj') /\ PointInto(locs', obj') /\ SameObjects(obj', u)
  BY <1>3, <1>7, <1>12, FreedKeeps
<1>14. KeepsObjects(obj', obj, Z)
  BY <1>10, <1>13, KeptToo
<1>15. \A y \in DOMAIN obj : LinkedIn(obj', y) => LinkedIn(obj, y) /\ y \notin Z
  BY <1>8, <1>13 DEF SameObjects
<1> HIDE DEF Z
<1>16. Handles(handle') /\ \E bt : Match(obj', handle', bt) /\ \A j \in Used : FitsIn(obj', handle', bt, locs, j)
  BY <1>1, <1>2, <1>3, <1>4, <1>5, <1>9, <1>14, <1>15, ErasedInStep DEF Z
<1>17. Used' \subseteq Used /\ \A j \in Used' : locs'[j] = locs[j]
  BY <1>11 DEF Used
<1>18. InStep(obj', handle', locs', Used')
  BY <1>16, <1>17 DEF InStep, FitsIn, Outdated
<1>19. Locators(locs', obj')
  BY <1>2, <1>11, <1>13 DEF Locators, PointInto
<1> QED
  BY <1>13, <1>16, <1>18, <1>19 DEF TreesInv

\* datMove
LEMMA MoveKeeps ==
    ASSUME Careful, TreesInv, NEW k, NEW p, NEW n \in Name, DatMove(k, p, n)
    PROVE  TreesInv'
<1>1. /\ Movable(k) /\ Valid(p) /\ MayUse(p) /\ Vacant(p, n) /\ Outside(k, p)
      /\ renamed' = renamed
  BY DEF DatMove
<1>2. CASE locs' = Restrict(locs, DOMAIN locs \ {k}) /\ MoveLink(k, p, n)
  BY <1>1, <1>2, MoveLinkKeeps
<1>3. CASE locs' = Restrict(locs, DOMAIN locs \ {k}) /\ MoveCopy(k, p, n)
  BY <1>1, <1>3, MoveCopyKeeps
<1>4. CASE MoveHalf(k, p, n)
  <2>1. Valid(k) /\ MayUse(k)
    BY <1>1 DEF Movable
  <2>2. /\ RoomFor(Cardinality(Below(obj, locs[k].obj)))
        /\ obj' = Copied(obj, locs[k].obj, locs[p].obj, n)
        /\ UNCHANGED <<handle, locs>>
    BY <1>4 DEF MoveHalf
  <2> QED
    BY <1>1, <2>1, <2>2, CopyKeeps
<1> QED
  BY <1>2, <1>3, <1>4 DEF DatMove

\* datRenam
LEMMA RenamKeeps ==
    ASSUME Careful, TreesInv, NEW k, NEW n \in Name, DatRenam(k, n)
    PROVE  TreesInv'
<1>1. PICK at : Match(obj, handle, at) /\ \A j \in Used : FitsIn(obj, handle, at, locs, j)
  BY DEF TreesInv, InStep
<1>2. Objects(obj) /\ Handles(handle) /\ Locators(locs, obj)
  BY DEF TreesInv
<1> DEFINE o == locs[k].obj
           h == locs[k].handle
           p == handle[h].up
           x == HandleFor(p, n)
           Z == Below(obj, o)
<1>3. /\ Valid(k) /\ MayUse(k) /\ MayMove(k) /\ o \notin Root /\ p \in DOMAIN handle
      /\ Child(obj, obj[o].up, n) = {} /\ FreeHandle # {}
      /\ obj' = [obj EXCEPT ![o].name = n] /\ handle' = WithHandle(p, n)
      /\ renamed' = renamed \cup {k} /\ locs' = locs
  BY DEF Movable, DatRenam
<1>4. h \in DOMAIN at /\ at[h] = o /\ o \in DOMAIN obj /\ LinkedIn(obj, o)
  BY <1>1, <1>3, HandleOfUsed
<1>5. obj[o].up \in DOMAIN obj
  <2>1. h \notin Root
    BY <1>1, <1>3, <1>4 DEF Match
  <2>2. handle[h].up \in DOMAIN at /\ obj[o].up = at[handle[h].up]
    BY <1>1, <1>4, <2>1 DEF Match
  <2> QED
    BY <1>1, <2>2 DEF Match, LinkedIn
<1> HIDE DEF x
<1>6. /\ Handles(handle') /\ GrownBy(handle', handle, x, p, n)
      /\ x \in DOMAIN handle \/ \A j \in DOMAIN locs : locs[j].handle # x
  BY <1>2, <1>3, WithHandleOk DEF x
<1>7. /\ DOMAIN obj' = DOMAIN obj /\ obj' = [y \in DOMAIN obj' |-> obj'[y]]
      /\ \A y \in DOMAIN obj \ {o} : obj'[y] = obj[y]
      /\ obj'[o] = [obj[o] EXCEPT !.name = n]
  BY <1>2, <1>3, <1>4 DEF Objects
<1>8. obj'[o] \in ObjectRecord /\ obj'[o].up = obj[o].up /\ obj'[o].name = n
  <2>1. n \in Nat
    BY ConstantsOk
  <2>2. obj[o] \in ObjectRecord
    BY <1>2, <1>4 DEF Objects
  <2> QED
    BY <1>7, <2>1, <2>2 DEF ObjectRecord
<1>9. obj' \in [DOMAIN obj -> ObjectRecord]
  <2>1. \A y \in DOMAIN obj' : obj'[y] \in ObjectRecord
    BY <1>2, <1>7, <1>8 DEF Objects
  <2> QED
    BY <1>7, <2>1
<1>10. MovedInto(obj', obj, o, obj[o].up, n)
  BY <1>7, <1>8 DEF MovedInto
<1>11. Objects(obj') /\ SameLinks(obj', obj) /\ KeepsObjects(obj', obj, Z)
  BY <1>2, <1>3, <1>4, <1>5, <1>9, <1>10, PlacedOk
<1>12. ClosedIn(Z, obj)
  BY <1>2, <1>4, BelowClosed
<1>13. KeepsHandles(handle', handle, at, Z)
  BY <1>1, <1>6 DEF KeepsHandles, Match, GrownBy
<1>14. \A y \in DOMAIN obj : LinkedIn(obj', y) => LinkedIn(obj, y)
  BY <1>11 DEF SameLinks
<1>15. \A j \in DOMAIN locs : locs[j].handle \in DOMAIN handle' => locs[j].handle \in DOMAIN handle
  BY <1>6 DEF GrownBy
<1>16. Used' \subseteq Used \ {k} /\ \A j \in Used' : locs'[j] = locs[j]
  BY <1>3 DEF Used
<1> HIDE DEF Z
<1>17. InStep(obj', handle', locs', Used')
  BY <1>1, <1>2, <1>3, <1>11, <1>12, <1>13, <1>14, <1>15, <1>16, DroppedInStep DEF Z
<1>18. Locators(locs', obj')
  BY <1>2, <1>3, <1>7 DEF Locators
<1> QED
  BY <1>6, <1>11, <1>17, <1>18 DEF TreesInv

\* Each file open has a locator for the top-level object, with its Handle.
LEMMA InitKeeps == HierarchyInit => TreesInv
<1> SUFFICES ASSUME HierarchyInit PROVE TreesInv
  OBVIOUS
<1> DEFINE at == [r \in Root |-> r]
<1>1. /\ obj = [r \in Root |-> [up |-> None, name |-> None, isStruct |-> TRUE]]
      /\ handle = [r \in Root |-> [up |-> None, name |-> None]]
      /\ locs = [i \in FileId |-> [obj |-> RootOf[i], handle |-> RootOf[i], fid |-> i]]
      /\ renamed = {}
  BY DEF HierarchyInit
<1>2. None \notin Root
  BY ConstantsOk
<1>3. ASSUME NEW t, NEW N, Root \subseteq 1..N, DOMAIN t = Root, \A r \in Root : t[r].up = None
      PROVE  TreeOk(t, N)
  <2>1. \A y \in DOMAIN t : ~HasUp(t, y)
    BY <1>2, <1>3 DEF HasUp
  <2>2. RankedBy(t, [y \in DOMAIN t |-> 0])
    BY <2>1 DEF RankedBy
  <2>3. Siblings(t)
    BY <2>1 DEF Siblings
  <2> QED
    BY <1>3, <2>2, <2>3 DEF TreeOk, Ranked
<1>4. Objects(obj)
  <2>1. TreeOk(obj, MaxObject)
    BY <1>1, <1>3, ConstantsOk
  <2>2. obj \in [DOMAIN obj -> ObjectRecord]
    BY <1>1, ConstantsOk DEF ObjectRecord
  <2> QED
    BY <2>1, <2>2 DEF Objects
<1>5. Handles(handle)
  <2>1. TreeOk(handle, MaxHandle)
    BY <1>1, <1>3, ConstantsOk
  <2>2. handle \in [DOMAIN handle -> HandleRecord]
    BY <1>1, ConstantsOk DEF HandleRecord
  <2> QED
    BY <2>1, <2>2 DEF Handles
<1>6. Locators(locs, obj)
  BY <1>1, ConstantsOk DEF Locators
<1>7. Match(obj, handle, at)
  <2>1. \A x \in Root : LinkedIn(obj, x)
    BY <1>4, ConstantsOk, RootsOnTop DEF Objects
  <2>2. IsInjective(at)
    BY DEF IsInjective
  <2> QED
    BY <1>1, <2>1, <2>2 DEF Match
<1>8. \A k \in Used : FitsIn(obj, handle, at, locs, k)
  BY <1>1, ConstantsOk DEF Used, FitsIn
<1> HIDE DEF at
<1>9. InStep(obj, handle, locs, Used)
  BY <1>7, <1>8 DEF InStep
<1> QED
  BY <1>4, <1>5, <1>6, <1>9 DEF TreesInv

\* Every call of a careful program keeps the trees and the locators in step.
LEMMA NextKeeps == Careful /\ TreesInv /\ [HierarchyNext]_hierarchyVars => TreesInv'
<1> SUFFICES ASSUME Careful, TreesInv, [HierarchyNext]_hierarchyVars PROVE TreesInv'
  OBVIOUS
<1>1. CASE \E k \in 1..MaxLoc, n \in Name : DatFind(k, n) \/ DatIndex(k, n)
  BY <1>1, FindKeeps, IndexKeeps
<1>2. CASE \E k \in 1..MaxLoc, n \in Name : DatErase(k, n) \/ DatRenam(k, n)
  BY <1>2, EraseKeeps, RenamKeeps
<1>3. CASE \E k \in 1..MaxLoc, n \in Name : \E s \in BOOLEAN : DatNew(k, n, s)
  BY <1>3, NewKeeps
<1>4. CASE \E k \in 1..MaxLoc : DatClone(k) \/ DatParen(k) \/ DatAnnul(k)
  BY <1>4, CloneKeeps, ParenKeeps, AnnulKeeps
<1>5. CASE \E k, p \in 1..MaxLoc, n \in Name : DatCopy(k, p, n)
  <2>1. PICK k \in 1..MaxLoc, p \in 1..MaxLoc, n \in Name : DatCopy(k, p, n)
    BY <1>5
  <2>2. /\ Valid(k) /\ MayUse(k) /\ Valid(p) /\ MayUse(p) /\ Vacant(p, n) /\ Outside(k, p)
        /\ RoomFor(Cardinality(Below(obj, locs[k].obj)))
        /\ obj' = Copied(obj, locs[k].obj, locs[p].obj, n)
        /\ UNCHANGED <<handle, locs, renamed>>
    BY <2>1 DEF DatCopy
  <2> QED
    BY <2>2, CopyKeeps
<1>6. CASE \E k, p \in 1..MaxLoc, n \in Name : DatCcopy(k, p, n) \/ DatMove(k, p, n)
  BY <1>6, CcopyKeeps, MoveKeeps
<1>7. CASE UNCHANGED hierarchyVars
  BY <1>7 DEF hierarchyVars, TreesInv, Objects, Handles, Locators, InStep, Used
<1> QED
  BY <1>1, <1>2, <1>3, <1>4, <1>5, <1>6, <1>7 DEF HierarchyNext

\* A locator that fits passes the check just as long as its object is in the
\* hierarchy.
LEMMA InStepValid == TreesInv => ValidIffLinked
<1> SUFFICES ASSUME TreesInv, NEW k \in Used PROVE Valid(k) <=> Linked(locs[k].obj)
  BY DEF ValidIffLinked
<1>1. PICK at : Match(obj, handle, at) /\ \A j \in Used : FitsIn(obj, handle, at, locs, j)
  BY DEF TreesInv, InStep
<1>2. Linked(locs[k].obj) <=> LinkedIn(obj, locs[k].obj)
  BY DEF Linked, LinkedIn
<1>3. FitsIn(obj, handle, at, locs, k) /\ k \in DOMAIN locs
  BY <1>1 DEF Used
<1>4. DOMAIN at \subseteq DOMAIN handle /\ \A x \in DOMAIN at : LinkedIn(obj, at[x])
  BY <1>1 DEF Match
<1> QED
  BY <1>2, <1>3, <1>4 DEF FitsIn, Outdated, Valid

\* No Handle is for two objects and no object has two.
LEMMA InStepOneEach == TreesInv => OneHandleEach
<1> SUFFICES ASSUME TreesInv, NEW k \in Used, NEW l \in Used, Valid(k), Valid(l)
             PROVE  locs[k].obj = locs[l].obj <=> locs[k].handle = locs[l].handle
  BY DEF OneHandleEach
<1>1. PICK at : Match(obj, handle, at) /\ \A j \in Used : FitsIn(obj, handle, at, locs, j)
  BY DEF TreesInv, InStep
<1>2. \A j \in {k, l} : locs[j].handle \in DOMAIN at /\ at[locs[j].handle] = locs[j].obj
  BY <1>1 DEF FitsIn, Outdated, Valid
<1>3. \A x, y \in DOMAIN at : at[x] = at[y] => x = y
  BY <1>1 DEF Match, IsInjective
<1> QED
  BY <1>2, <1>3

-----------------------------------------------------------------------------
(* The theorems *)

\* A locator passes dat1ValidateLocator exactly as long as its object is in the
\* hierarchy, whatever a careful program has found, made, moved, copied or
\* erased: dat1EraseHandle invalidates all locators to what was erased, and no
\* others.
THEOREM HandlesFollowObjects ==
    ASSUME Careful
    PROVE  HierarchySpec => []ValidIffLinked
<1>1. TreesInv /\ [HierarchyNext]_hierarchyVars => TreesInv'
  BY NextKeeps
<1>2. HierarchySpec => []TreesInv
  BY <1>1, InitKeeps, PTL DEF HierarchySpec
<1> QED
  BY <1>2, InStepValid, PTL

\* All locators a careful program has for one object, however they were found,
\* share one Handle, and so the lock in it, with each other and with no other
\* object's.
THEOREM OneHandleForEach ==
    ASSUME Careful
    PROVE  HierarchySpec => []OneHandleEach
<1>1. TreesInv /\ [HierarchyNext]_hierarchyVars => TreesInv'
  BY NextKeeps
<1>2. HierarchySpec => []TreesInv
  BY <1>1, InitKeeps, PTL DEF HierarchySpec
<1> QED
  BY <1>2, InStepOneEach, PTL

-----------------------------------------------------------------------------
(* Paths *)

\* A path with one name more: its length and its elements.
LEMMA AppendedOk ==
    ASSUME NEW q \in Seq(Nat), NEW n \in Nat, NEW a, Longer(a, q, n)
    PROVE  /\ a \in Seq(Nat) /\ Len(a) = Len(q) + 1 /\ Len(q) \in Nat
           /\ a[Len(q) + 1] = n
           /\ \A i \in 1..Len(q) : a[i] = q[i]
BY DEF Longer

\* Two paths are the same if they have the same elements.
LEMMA SamePath ==
    ASSUME NEW p \in Seq(Nat), NEW q \in Seq(Nat), Len(p) = Len(q),
           \A i \in 1..Len(p) : p[i] = q[i]
    PROVE  p = q
OBVIOUS

\* What it is to be the beginning of a path.
LEMMA BeginsDef ==
    ASSUME NEW p \in Seq(Nat), NEW q \in Seq(Nat)
    PROVE  Tree!IsPrefix(p, q) <=> Len(p) <= Len(q) /\ \A i \in 1..Len(p) : p[i] = q[i]
<1>1. CASE Len(p) <= Len(q)
  <2> DEFINE a == SubSeq(p, 1, Len(p))
             b == SubSeq(q, 1, Len(p))
  <2>1. a \in Seq(Nat) /\ Len(a) = Len(p) /\ \A i \in 1..Len(p) : a[i] = p[i]
    OBVIOUS
  <2>2. b \in Seq(Nat) /\ Len(b) = Len(p) /\ \A i \in 1..Len(p) : b[i] = q[i]
    BY <1>1
  <2>3. Tree!IsPrefix(p, q) <=> a = b
    BY <1>1 DEF Tree!IsPrefix
  <2> HIDE DEF a, b
  <2>4. a = b <=> \A i \in 1..Len(p) : p[i] = q[i]
    BY <2>1, <2>2, SamePath
  <2> QED
    BY <1>1, <2>3, <2>4
<1>2. CASE ~(Len(p) <= Len(q))
  BY <1>2 DEF Tree!IsPrefix
<1> QED
  BY <1>1, <1>2

\* The beginnings of a path with one name more.
LEMMA BeginsLonger ==
    ASSUME NEW q \in Seq(Nat), NEW n \in Nat, NEW a, Longer(a, q, n), NEW p \in Seq(Nat)
    PROVE  Tree!IsPrefix(p, a) <=> p = a \/ Tree!IsPrefix(p, q)
<1>1. /\ a \in Seq(Nat) /\ Len(a) = Len(q) + 1 /\ Len(q) \in Nat /\ Len(p) \in Nat
      /\ \A i \in 1..Len(q) : a[i] = q[i]
  BY AppendedOk
<1>2. Tree!IsPrefix(p, a) <=> Len(p) <= Len(a) /\ \A i \in 1..Len(p) : p[i] = a[i]
  BY <1>1, BeginsDef
<1>3. Tree!IsPrefix(p, q) <=> Len(p) <= Len(q) /\ \A i \in 1..Len(p) : p[i] = q[i]
  BY BeginsDef
<1>4. CASE Len(p) <= Len(q)
  <2>1. \A i \in 1..Len(p) : a[i] = q[i]
    BY <1>1, <1>4
  <2>2. p # a
    BY <1>1, <1>4
  <2> QED
    BY <1>1, <1>2, <1>3, <1>4, <2>1, <2>2
<1>5. CASE ~(Len(p) <= Len(q))
  <2>1. CASE Len(p) = Len(a)
    <3>1. (\A i \in 1..Len(p) : p[i] = a[i]) => p = a
      BY <1>1, <2>1, SamePath
    <3> QED
      BY <1>1, <1>2, <1>3, <1>5, <2>1, <3>1
  <2>2. CASE Len(p) # Len(a)
    <3>1. ~(Len(p) <= Len(a))
      BY <1>1, <1>5, <2>2
    <3> QED
      BY <1>2, <1>3, <1>5, <2>2, <3>1
  <2> QED
    BY <2>1, <2>2
<1> QED
  BY <1>4, <1>5

\* The beginnings of a path of one node.
LEMMA BeginsAlone ==
    ASSUME NEW y \in Nat, NEW a, Alone(a, y), NEW p \in Seq(Nat), p # <<>>
    PROVE  Tree!IsPrefix(p, a) <=> p = a
<1>1. a \in Seq(Nat) /\ Len(a) = 1 /\ Len(p) \in Nat /\ Len(p) # 0
  BY DEF Alone
<1>2. Tree!IsPrefix(p, a) <=> Len(p) <= Len(a) /\ \A i \in 1..Len(p) : p[i] = a[i]
  BY <1>1, BeginsDef
<1>3. Len(p) <= Len(a) <=> Len(p) = Len(a)
  <2>1. \A m \in Nat : m # 0 => (m <= 1 <=> m = 1)
    OBVIOUS
  <2> QED
    BY <1>1, <2>1
<1> QED
  BY <1>1, <1>2, <1>3, SamePath

-----------------------------------------------------------------------------
(* Paths with another beginning *)

\* b is the path q with new in the place of its first k elements.
PutOn(b, q, k, new) ==
    /\ b \in Seq(Nat) /\ Len(b) = Len(new) + (Len(q) - k)
    /\ \A i \in 1..Len(new) : b[i] = new[i]
    /\ \A i \in 1..(Len(q) - k) : b[Len(new) + i] = q[k + i]

LEMMA RebasedOk ==
    ASSUME NEW p \in Seq(Nat), NEW q \in Seq(Nat), NEW new \in Seq(Nat), Len(p) <= Len(q)
    PROVE  PutOn(Tree!Rebased(q, p, new), q, Len(p), new)
<1> DEFINE s == SubSeq(q, Len(p) + 1, Len(q))
<1>1. Len(p) \in Nat /\ Len(q) \in Nat /\ Len(new) \in Nat /\ Len(q) - Len(p) \in Nat
  OBVIOUS
<1>2. s \in Seq(Nat) /\ Len(s) = Len(q) - Len(p)
  BY <1>1
<1>3. \A i \in 1..(Len(q) - Len(p)) : s[i] = q[Len(p) + i]
  BY <1>1
<1>4. Tree!Rebased(q, p, new) = new \o s
  BY DEF Tree!Rebased
<1> HIDE DEF s
<1>5. new \o s \in Seq(Nat) /\ Len(new \o s) = Len(new) + (Len(q) - Len(p))
  BY <1>2
<1>6. \A i \in 1..Len(new) : (new \o s)[i] = new[i]
  BY <1>1, <1>2
<1>7. ASSUME NEW i \in 1..(Len(q) - Len(p)) PROVE (new \o s)[Len(new) + i] = q[Len(p) + i]
  <2>1. (new \o s)[Len(new) + i] = s[i]
    BY <1>1, <1>2
  <2> QED
    BY <1>3, <2>1
<1> QED
  BY <1>4, <1>5, <1>6, <1>7 DEF PutOn

\* There is one such path only.
LEMMA PutOnOnce ==
    ASSUME NEW q \in Seq(Nat), NEW new \in Seq(Nat), NEW k \in Nat, k <= Len(q),
           NEW a, PutOn(a, q, k, new), NEW b, PutOn(b, q, k, new)
    PROVE  a = b
<1> USE DEF PutOn
<1>1. Len(q) \in Nat /\ Len(new) \in Nat /\ Len(a) = Len(b) /\ a \in Seq(Nat) /\ b \in Seq(Nat)
  OBVIOUS
<1>2. ASSUME NEW i \in 1..Len(a) PROVE a[i] = b[i]
  <2>1. CASE i <= Len(new)
    BY <1>1, <2>1
  <2>2. CASE ~(i <= Len(new))
    <3>1. i - Len(new) \in 1..(Len(q) - k) /\ i = Len(new) + (i - Len(new))
      BY <1>1, <2>2
    <3> QED
      BY <1>1, <3>1
  <2> QED
    BY <2>1, <2>2
<1> QED
  BY <1>1, <1>2, SamePath

\* A path that is rebased is its own length again in the other direction.
LEMMA RebasedBack ==
    ASSUME NEW p \in Seq(Nat), NEW q \in Seq(Nat), NEW new \in Seq(Nat), Tree!IsPrefix(p, q)
    PROVE  Tree!Rebased(Tree!Rebased(q, p, new), new, p) = q
<1> DEFINE b == Tree!Rebased(q, p, new)
           c == Tree!Rebased(b, new, p)
<1>1. Len(p) <= Len(q) /\ \A i \in 1..Len(p) : p[i] = q[i]
  BY BeginsDef
<1>2. PutOn(b, q, Len(p), new)
  BY <1>1, RebasedOk
<1>3. b \in Seq(Nat) /\ Len(new) <= Len(b)
  BY <1>1, <1>2 DEF PutOn
<1> HIDE DEF b
<1>4. PutOn(c, b, Len(new), p)
  BY <1>3, RebasedOk
<1> HIDE DEF c
<1>5. c \in Seq(Nat) /\ Len(c) = Len(q)
  BY <1>1, <1>2, <1>4 DEF PutOn
<1>6. ASSUME NEW i \in 1..Len(q) PROVE c[i] = q[i]
  <2>1. CASE i <= Len(p)
    BY <1>1, <1>4, <2>1 DEF PutOn
  <2>2. CASE ~(i <= Len(p))
    <3>1. /\ i - Len(p) \in 1..(Len(q) - Len(p)) /\ i = Len(p) + (i - Len(p))
          /\ i - Len(p) \in 1..(Len(b) - Len(new))
      BY <1>1, <1>2, <2>2 DEF PutOn
    <3>2. c[Len(p) + (i - Len(p))] = b[Len(new) + (i - Len(p))]
      BY <1>4, <3>1 DEF PutOn
    <3>3. b[Len(new) + (i - Len(p))] = q[Len(p) + (i - Len(p))]
      BY <1>2, <3>1 DEF PutOn
    <3> QED
      BY <3>1, <3>2, <3>3
  <2> QED
    BY <2>1, <2>2
<1> QED
  BY <1>5, <1>6, SamePath DEF b, c

\* The beginning of a path can be exchanged as a whole.
LEMMA RebasedSame ==
    ASSUME NEW p \in Seq(Nat), NEW new \in Seq(Nat)
    PROVE  Tree!Rebased(p, p, new) = new
<1>1. PutOn(Tree!Rebased(p, p, new), p, Len(p), new)
  BY RebasedOk
<1>2. PutOn(new, p, Len(p), new)
  BY DEF PutOn
<1> QED
  BY <1>1, <1>2, PutOnOnce

\* The end of a path stays when the beginning is exchanged.
LEMMA RebasedLonger ==
    ASSUME NEW p \in Seq(Nat), NEW q \in Seq(Nat), NEW new \in Seq(Nat), Len(p) <= Len(q),
           NEW n \in Nat, NEW a, Longer(a, q, n)
    PROVE  Longer(Tree!Rebased(a, p, new), Tree!Rebased(q, p, new), n)
<1> DEFINE b == Tree!Rebased(q, p, new)
<1>1. a \in Seq(Nat) /\ Len(a) = Len(q) + 1 /\ Len(q) \in Nat /\ a[Len(q) + 1] = n
      /\ \A i \in 1..Len(q) : a[i] = q[i]
  BY AppendedOk
<1>2. PutOn(b, q, Len(p), new)
  BY RebasedOk
<1>3. PutOn(Tree!Rebased(a, p, new), a, Len(p), new)
  BY <1>1, RebasedOk
<1> HIDE DEF b
<1> DEFINE c == Append(b, n)
<1>4. /\ c \in Seq(Nat) /\ Len(c) = Len(b) + 1 /\ Len(b) \in Nat
      /\ c[Len(b) + 1] = n /\ \A i \in 1..Len(b) : c[i] = b[i]
  <2>1. b \in Seq(Nat) /\ Longer(c, b, n)
    BY <1>2 DEF PutOn, Longer
  <2> QED
    BY <2>1, AppendedOk
<1> HIDE DEF c
<1>5. PutOn(c, a, Len(p), new)
  <2>1. Len(c) = Len(new) + (Len(a) - Len(p))
    BY <1>1, <1>2, <1>4 DEF PutOn
  <2>2. \A i \in 1..Len(new) : c[i] = new[i]
    BY <1>2, <1>4 DEF PutOn
  <2>3. ASSUME NEW i \in 1..(Len(a) - Len(p)) PROVE c[Len(new) + i] = a[Len(p) + i]
    <3>1. CASE i <= Len(q) - Len(p)
      <4>1. i \in 1..(Len(q) - Len(p)) /\ Len(p) + i \in 1..Len(q) /\ Len(new) + i \in 1..Len(b)
        BY SMTT(40), <1>1, <1>2, <3>1 DEF PutOn
      <4> QED
        BY <1>1, <1>2, <1>4, <4>1 DEF PutOn
    <3>2. CASE ~(i <= Len(q) - Len(p))
      <4>1. Len(p) + i = Len(q) + 1 /\ Len(new) + i = Len(b) + 1
        BY <1>1, <1>2, <3>2 DEF PutOn
      <4> QED
        BY <1>1, <1>4, <4>1
    <3> QED
      BY <3>1, <3>2
  <2> QED
    BY <1>4, <2>1, <2>2, <2>3 DEF PutOn
<1>6. Len(p) <= Len(a)
  BY <1>1
<1>7. Tree!Rebased(a, p, new) = c
  BY <1>1, <1>3, <1>5, <1>6, PutOnOnce
<1> QED
  BY <1>7 DEF c, b, Longer

-----------------------------------------------------------------------------
(* The paths of the nodes of a tree *)

\* A tree whose nodes and names are numbers.
Named(t) == Ranked(t) /\ DOMAIN t \subseteq Nat /\ \A y \in DOMAIN t : t[y].name \in Nat

LEMMA ObjectsNamed ==
    ASSUME NEW t, Objects(t)
    PROVE  Named(t) /\ Siblings(t)
<1>1. t \in [DOMAIN t -> ObjectRecord] /\ DOMAIN t \subseteq 1..MaxObject /\ MaxObject \in Nat
  BY ConstantsOk DEF Objects, TreeOk
<1>2. \A y \in DOMAIN t : t[y].name \in Nat
  BY <1>1 DEF ObjectRecord
<1>3. Ranked(t) /\ Siblings(t)
  BY DEF Objects, TreeOk
<1> QED
  BY <1>1, <1>2, <1>3 DEF Named

\* A path is as long as the chain, and begins with the same node.
LEMMA PathOk ==
    ASSUME NEW t, Named(t), NEW y \in DOMAIN t, NEW c, c = Chain(t, y)
    PROVE  /\ c \in Seq(DOMAIN t) /\ Len(c) \in Nat \ {0}
           /\ Path(t, y) \in Seq(Nat)
           /\ Len(Path(t, y)) = Len(c)
           /\ Path(t, y) # <<>>
           /\ Path(t, y)[1] = c[1]
           /\ \A i \in 2..Len(c) : Path(t, y)[i] = t[c[i]].name
<1>1. c \in Seq(DOMAIN t) /\ c # <<>>
  BY ChainOk DEF Named
<1>2. Len(c) \in Nat \ {0} /\ DOMAIN c = 1..Len(c) /\ \A i \in 1..Len(c) : c[i] \in DOMAIN t
  BY <1>1
<1> DEFINE p == [i \in 1..Len(c) |-> IF i = 1 THEN c[1] ELSE t[c[i]].name]
<1>3. Path(t, y) = p
  BY <1>2 DEF Path
<1>4. 1 \in 1..Len(c) /\ \A i \in 2..Len(c) : i \in 1..Len(c) /\ i # 1
  BY <1>2
<1>5. p \in [1..Len(c) -> Nat]
  BY <1>2, <1>4 DEF Named
<1>6. p[1] = c[1] /\ \A i \in 2..Len(c) : p[i] = t[c[i]].name
  BY <1>4
<1> HIDE DEF p
<1>7. p \in Seq(Nat) /\ Len(p) = Len(c) /\ p # <<>>
  BY <1>2, <1>5
<1> QED
  BY <1>1, <1>2, <1>3, <1>6, <1>7

\* The path of a node is that of the node above it with its name.
LEMMA PathDef ==
    ASSUME NEW t, Named(t), NEW y \in DOMAIN t
    PROVE  /\ HasUp(t, y) => Longer(Path(t, y), Path(t, t[y].up), t[y].name)
           /\ ~HasUp(t, y) => Alone(Path(t, y), y)
<1> DEFINE c == Chain(t, y)
           p == Path(t, y)
<1>1. /\ c \in Seq(DOMAIN t) /\ Len(c) \in Nat \ {0}
      /\ p \in Seq(Nat) /\ Len(p) = Len(c) /\ p[1] = c[1]
      /\ \A i \in 2..Len(c) : p[i] = t[c[i]].name
  BY PathOk
<1>2. c = IF HasUp(t, y) THEN Append(Chain(t, t[y].up), y) ELSE <<y>>
  BY ChainDef DEF Named
<1>3. ASSUME HasUp(t, y) PROVE Longer(p, Path(t, t[y].up), t[y].name)
  <2> DEFINE z == t[y].up
             d == Chain(t, z)
             q == Path(t, z)
             a == Append(q, t[y].name)
  <2>1. z \in DOMAIN t
    BY <1>3 DEF HasUp
  <2>2. /\ d \in Seq(DOMAIN t) /\ Len(d) \in Nat \ {0}
        /\ q \in Seq(Nat) /\ Len(q) = Len(d) /\ q[1] = d[1]
        /\ \A i \in 2..Len(d) : q[i] = t[d[i]].name
    BY <2>1, PathOk
  <2>3. c = Append(d, y)
    BY <1>2, <1>3
  <2> HIDE DEF c, d, p, q
  <2>4. Len(c) = Len(d) + 1 /\ c[Len(d) + 1] = y /\ \A i \in 1..Len(d) : c[i] = d[i]
    BY <2>2, <2>3
  <2>5. /\ a \in Seq(Nat) /\ Len(a) = Len(q) + 1
        /\ a[Len(q) + 1] = t[y].name
        /\ \A i \in 1..Len(q) : a[i] = q[i]
    <3>1. PICK n \in Nat : n = t[y].name
      BY DEF Named
    <3>2. Longer(a, q, n) /\ q \in Seq(Nat)
      BY <2>2, <3>1 DEF Longer
    <3> HIDE DEF a
    <3>3. /\ a \in Seq(Nat) /\ Len(a) = Len(q) + 1 /\ a[Len(q) + 1] = n
          /\ \A i \in 1..Len(q) : a[i] = q[i]
      BY <3>2, AppendedOk
    <3> QED
      BY <3>1, <3>3
  <2> HIDE DEF a
  <2>6. ASSUME NEW i \in 1..Len(p) PROVE p[i] = a[i]
    <3>1. CASE i = 1
      <4>1. 1 \in 1..Len(d)
        BY <2>2
      <4> QED
        BY <1>1, <2>2, <2>4, <2>5, <3>1, <4>1
    <3>2. CASE i \in 2..Len(d)
      <4>1. i \in 1..Len(d) /\ i \in 2..Len(c)
        BY <2>2, <2>4, <3>2
      <4> QED
        BY ZenonT(40), <1>1, <2>2, <2>4, <2>5, <3>2, <4>1
    <3>3. CASE i = Len(d) + 1
      <4>1. i \in 2..Len(c)
        BY <2>2, <2>4, <3>3
      <4> QED
        BY <1>1, <2>2, <2>4, <2>5, <3>3, <4>1
    <3> QED
      BY <1>1, <2>2, <2>4, <3>1, <3>2, <3>3
  <2>7. p = a
    BY <1>1, <2>2, <2>4, <2>5, <2>6, SamePath
  <2> QED
    BY <2>7 DEF a, p, q, Longer
<1>4. ASSUME ~HasUp(t, y) PROVE Alone(p, y)
  <2>1. c = <<y>> /\ y \in Nat
    BY <1>2, <1>4 DEF Named
  <2> HIDE DEF c, p
  <2>2. Len(c) = 1 /\ c[1] = y
    BY <2>1
  <2>3. <<y>> \in Seq(Nat) /\ Len(<<y>>) = 1 /\ <<y>>[1] = y
    BY <2>1
  <2>4. \A i \in 1..Len(p) : p[i] = <<y>>[i]
    BY <1>1, <2>2, <2>3
  <2>5. p = <<y>>
    BY <1>1, <2>2, <2>3, <2>4, SamePath
  <2> QED
    BY <2>5 DEF Alone, p
<1> QED
  BY <1>3, <1>4

\* A path says which the last name is, and which path is before it.
LEMMA LongerOnce ==
    ASSUME NEW p \in Seq(Nat), NEW q \in Seq(Nat), NEW m \in Nat, NEW n \in Nat,
           NEW a, Longer(a, p, m), NEW b, Longer(b, q, n), a = b
    PROVE  p = q /\ m = n
<1>1. /\ Len(a) = Len(p) + 1 /\ a[Len(p) + 1] = m /\ \A i \in 1..Len(p) : a[i] = p[i]
      /\ Len(b) = Len(q) + 1 /\ b[Len(q) + 1] = n /\ \A i \in 1..Len(q) : b[i] = q[i]
      /\ Len(p) \in Nat /\ Len(q) \in Nat
  BY AppendedOk
<1>2. Len(p) = Len(q)
  BY <1>1
<1> QED
  BY <1>1, <1>2, SamePath

\* A path that goes below a node is not that of a top node.
LEMMA LongerNotAlone ==
    ASSUME NEW q \in Seq(Nat), q # <<>>, NEW n \in Nat, NEW a, Longer(a, q, n), NEW y, Alone(a, y)
    PROVE  FALSE
<1>1. Len(a) = Len(q) + 1 /\ Len(q) \in Nat /\ Len(q) # 0
  BY AppendedOk
<1>2. Len(a) = 1
  BY DEF Alone
<1>3. \A k \in Nat : k # 0 => k + 1 # 1
  OBVIOUS
<1> QED
  BY <1>1, <1>2, <1>3

\* The node above one has a path, too, and the name is a number.
LEMMA UpOk ==
    ASSUME NEW t, Named(t), NEW y \in DOMAIN t, HasUp(t, y)
    PROVE  /\ t[y].up \in DOMAIN t /\ t[y].name \in Nat
           /\ Path(t, t[y].up) \in Seq(Nat) /\ Path(t, t[y].up) # <<>>
           /\ Longer(Path(t, y), Path(t, t[y].up), t[y].name)
<1>1. t[y].up \in DOMAIN t /\ t[y].name \in Nat
  BY DEF HasUp, Named
<1> QED
  BY <1>1, PathOk, PathDef

\* Two nodes do not have the same path.
LEMMA PathsDiffer ==
    ASSUME NEW t, Named(t), Siblings(t)
    PROVE  \A x, y \in DOMAIN t : Path(t, x) = Path(t, y) => x = y
<1> DEFINE S == {x \in DOMAIN t : \A y \in DOMAIN t : Path(t, x) = Path(t, y) => x = y}
<1>1. ASSUME NEW x \in DOMAIN t, HasUp(t, x) => t[x].up \in S PROVE x \in S
  <2> SUFFICES ASSUME NEW y \in DOMAIN t, Path(t, x) = Path(t, y) PROVE x = y
    OBVIOUS
  <2>1. CASE HasUp(t, x) /\ HasUp(t, y)
    <3>1. Path(t, t[x].up) = Path(t, t[y].up) /\ t[x].name = t[y].name
      <4> DEFINE p == Path(t, t[x].up)
                 q == Path(t, t[y].up)
                 m == t[x].name
                 n == t[y].name
      <4>1. /\ p \in Seq(Nat) /\ q \in Seq(Nat) /\ m \in Nat /\ n \in Nat
            /\ Longer(Path(t, x), p, m) /\ Longer(Path(t, y), q, n)
        BY <2>1, UpOk
      <4> HIDE DEF p, q, m, n
      <4>2. p = q /\ m = n
        BY <4>1, LongerOnce
      <4> QED
        BY <4>2 DEF p, q, m, n
    <3>2. t[x].up = t[y].up
      BY <1>1, <2>1, <3>1 DEF HasUp
    <3> QED
      BY <2>1, <3>1, <3>2 DEF Siblings
  <2>2. CASE HasUp(t, x) /\ ~HasUp(t, y)
    <3>1. Alone(Path(t, x), y)
      BY <2>2, PathDef
    <3> QED
      BY <2>2, <3>1, UpOk, LongerNotAlone
  <2>3. CASE ~HasUp(t, x) /\ HasUp(t, y)
    <3>1. Alone(Path(t, y), x)
      BY <2>3, PathDef
    <3> QED
      BY <2>3, <3>1, UpOk, LongerNotAlone
  <2>4. CASE ~HasUp(t, x) /\ ~HasUp(t, y)
    <3>1. Alone(Path(t, x), x) /\ Alone(Path(t, x), y)
      BY <2>4, PathDef
    <3> QED
      BY <3>1 DEF Alone
  <2> QED
    BY <2>1, <2>2, <2>3, <2>4
<1> HIDE DEF S
<1>2. DOMAIN t \subseteq S
  BY <1>1, FromAbove DEF Named
<1> QED
  BY <1>2 DEF S

\* What is below a node has a path that begins with the path of the node.
LEMMA PathsBelow ==
    ASSUME NEW t, Named(t), Siblings(t), NEW x \in DOMAIN t
    PROVE  \A y \in DOMAIN t : Tree!IsPrefix(Path(t, x), Path(t, y)) <=> y \in Below(t, x)
<1> DEFINE p == Path(t, x)
           S == {y \in DOMAIN t : Tree!IsPrefix(p, Path(t, y)) <=> y \in Below(t, x)}
<1>1. p \in Seq(Nat) /\ p # <<>>
  BY PathOk
<1>2. ASSUME NEW y \in DOMAIN t, HasUp(t, y) => t[y].up \in S PROVE y \in S
  <2>1. y \in Below(t, x) <=> y = x \/ (HasUp(t, y) /\ t[y].up \in Below(t, x))
    BY BelowDef DEF Named
  <2>2. p = Path(t, y) <=> y = x
    BY PathsDiffer
  <2> HIDE DEF p
  <2>3. CASE HasUp(t, y)
    <3>1. Tree!IsPrefix(p, Path(t, y)) <=> p = Path(t, y) \/ Tree!IsPrefix(p, Path(t, t[y].up))
      BY <1>1, <2>3, UpOk, BeginsLonger
    <3> QED
      BY <1>2, <2>1, <2>2, <2>3, <3>1
  <2>4. CASE ~HasUp(t, y)
    <3>1. Alone(Path(t, y), y) /\ y \in Nat
      BY <2>4, PathDef DEF Named
    <3>2. Tree!IsPrefix(p, Path(t, y)) <=> p = Path(t, y)
      BY <1>1, <3>1, BeginsAlone
    <3> QED
      BY <2>1, <2>2, <2>4, <3>2
  <2> QED
    BY <2>3, <2>4
<1> HIDE DEF S
<1>3. DOMAIN t \subseteq S
  BY <1>2, FromAbove DEF Named
<1> QED
  BY <1>3 DEF S, p

\* The nodes in S are in u as they are in t, and with one the node above it is
\* in S.
StaysIn(S, t, u) ==
    \A y \in S : /\ y \in DOMAIN t /\ y \in DOMAIN u
                 /\ HasUp(u, y) <=> HasUp(t, y)
                 /\ HasUp(t, y) => /\ t[y].up \in S
                                   /\ u[y].up = t[y].up /\ u[y].name = t[y].name

\* Their paths are the same.
LEMMA PathsKept ==
    ASSUME NEW t, Named(t), NEW u, Named(u), NEW S, StaysIn(S, t, u)
    PROVE  \A y \in S : Path(u, y) = Path(t, y)
<1> DEFINE T == {y \in DOMAIN t : y \in S => Path(u, y) = Path(t, y)}
<1>1. ASSUME NEW y \in DOMAIN t, HasUp(t, y) => t[y].up \in T PROVE y \in T
  <2> SUFFICES ASSUME y \in S PROVE Path(u, y) = Path(t, y)
    OBVIOUS
  <2>1. y \in DOMAIN u /\ (HasUp(u, y) <=> HasUp(t, y))
    BY DEF StaysIn
  <2>2. CASE HasUp(t, y)
    <3>1. t[y].up \in S /\ u[y].up = t[y].up /\ u[y].name = t[y].name
      BY <2>2 DEF StaysIn
    <3>2. Path(u, u[y].up) = Path(t, t[y].up)
      BY <1>1, <2>2, <3>1
    <3>3. /\ Longer(Path(t, y), Path(t, t[y].up), t[y].name)
          /\ Longer(Path(u, y), Path(u, u[y].up), u[y].name)
      BY <2>1, <2>2, PathDef
    <3> QED
      BY <3>1, <3>2, <3>3 DEF Longer
  <2>3. CASE ~HasUp(t, y)
    <3>1. Alone(Path(t, y), y) /\ Alone(Path(u, y), y)
      BY <2>1, <2>3, PathDef
    <3> QED
      BY <3>1 DEF Alone
  <2> QED
    BY <2>2, <2>3
<1> HIDE DEF T
<1>2. DOMAIN t \subseteq T
  BY <1>1, FromAbove DEF Named
<1>3. S \subseteq DOMAIN t
  BY DEF StaysIn
<1> QED
  BY <1>2, <1>3 DEF T

\* What is below o in t is in u, as w says, with the same names, the whole under
\* another path.
Replanted(t, u, o, w) ==
    /\ \A y \in Below(t, o) : w[y] \in DOMAIN u
    /\ \A y \in Below(t, o) \ {o} : /\ HasUp(u, w[y]) /\ u[w[y]].up = w[t[y].up]
                                    /\ u[w[y]].name = t[y].name

LEMMA PathsReplanted ==
    ASSUME NEW t, Named(t), Siblings(t), NEW o \in DOMAIN t,
           NEW u, Named(u), NEW w, Replanted(t, u, o, w),
           NEW new, new = Path(u, w[o])
    PROVE  \A y \in Below(t, o) : Path(u, w[y]) = Tree!Rebased(Path(t, y), Path(t, o), new)
<1> DEFINE B == Below(t, o)
           p == Path(t, o)
           T == {y \in DOMAIN t : y \in B => Path(u, w[y]) = Tree!Rebased(Path(t, y), p, new)}
<1>1. /\ B \subseteq DOMAIN t /\ o \in B
      /\ \A y \in B : y # o => HasUp(t, y) /\ t[y].up \in B
  BY BelowDef DEF Named
<1>2. p \in Seq(Nat)
  BY PathOk
<1>3. new \in Seq(Nat)
  BY <1>1, PathOk DEF Replanted
<1>4. ASSUME NEW y \in DOMAIN t, HasUp(t, y) => t[y].up \in T PROVE y \in T
  <2> SUFFICES ASSUME y \in B PROVE Path(u, w[y]) = Tree!Rebased(Path(t, y), p, new)
    OBVIOUS
  <2>1. CASE y = o
    BY <1>2, <1>3, <2>1, RebasedSame
  <2>2. CASE y # o
    <3> DEFINE z == t[y].up
               n == t[y].name
               q == Path(t, z)
    <3>1. HasUp(t, y) /\ z \in B /\ z \in DOMAIN t
      BY <1>1, <2>2
    <3>2. n \in Nat /\ q \in Seq(Nat) /\ Longer(Path(t, y), q, n)
      BY <3>1, UpOk
    <3>3. Path(u, w[z]) = Tree!Rebased(q, p, new)
      BY <1>4, <3>1
    <3>4. w[y] \in DOMAIN u /\ HasUp(u, w[y]) /\ u[w[y]].up = w[z] /\ u[w[y]].name = n
      BY <2>2 DEF Replanted
    <3>5. Longer(Path(u, w[y]), Path(u, w[z]), n)
      BY <3>4, UpOk
    <3>6. Tree!IsPrefix(p, q)
      BY <3>1, PathsBelow
    <3>7. Len(p) <= Len(q)
      BY <1>2, <3>2, <3>6, BeginsDef
    <3> HIDE DEF z, n, q, p, B
    <3>8. Longer(Tree!Rebased(Path(t, y), p, new), Tree!Rebased(q, p, new), n)
      BY <1>2, <1>3, <3>2, <3>7, RebasedLonger
    <3> QED
      BY <3>3, <3>5, <3>8 DEF Longer
  <2> QED
    BY <2>1, <2>2
<1> HIDE DEF T
<1>5. DOMAIN t \subseteq T
  BY <1>4, FromAbove DEF Named
<1> QED
  BY <1>1, <1>5 DEF T

-----------------------------------------------------------------------------
(* The objects as users see them *)

\* f says of the paths of the nodes K of t, and of nothing else, which of them
\* are structures.
SeesOf(f, t, K) ==
    /\ f = [q \in DOMAIN f |-> f[q]]
    /\ \A y \in K : Path(t, y) \in DOMAIN f /\ f[Path(t, y)] = t[y].isStruct
    /\ \A q \in DOMAIN f : \E y \in K : q = Path(t, y)

\* f is what is seen of the objects t.
Sees(f, t) == SeesOf(f, t, Hier(t))

LEMMA SeesOne ==
    ASSUME NEW t, NEW K, NEW f, SeesOf(f, t, K), NEW g, SeesOf(g, t, K)
    PROVE  f = g
<1>1. DOMAIN f = DOMAIN g
  BY DEF SeesOf
<1>2. \A q \in DOMAIN f : f[q] = g[q]
  BY DEF SeesOf
<1>3. f = [q \in DOMAIN f |-> f[q]] /\ g = [q \in DOMAIN g |-> g[q]]
  BY DEF SeesOf
<1> QED
  BY <1>1, <1>2, <1>3

\* ByPath for any objects.
ByPathOf(t) ==
    [p \in {Path(t, y) : y \in Hier(t)} |-> \E o \in DOMAIN t : t[o].isStruct /\ Path(t, o) = p]

LEMMA ByPathSees ==
    ASSUME NEW t, Objects(t)
    PROVE  Sees(ByPathOf(t), t)
<1> DEFINE f == ByPathOf(t)
<1>1. Named(t) /\ Siblings(t)
  BY ObjectsNamed
<1>2. /\ f = [q \in DOMAIN f |-> f[q]]
      /\ \A q \in DOMAIN f : \E y \in Hier(t) : q = Path(t, y)
      /\ \A y \in Hier(t) : Path(t, y) \in DOMAIN f
  BY DEF ByPathOf
<1>3. ASSUME NEW y \in Hier(t) PROVE f[Path(t, y)] = t[y].isStruct
  <2>1. f[Path(t, y)] = \E o \in DOMAIN t : t[o].isStruct /\ Path(t, o) = Path(t, y)
    BY DEF ByPathOf
  <2>2. y \in DOMAIN t
    BY DEF Hier
  <2>3. t[y].isStruct \in BOOLEAN
    BY <2>2 DEF Objects, ObjectRecord
  <2>4. (\E o \in DOMAIN t : t[o].isStruct /\ Path(t, o) = Path(t, y)) <=> t[y].isStruct
    BY <1>1, <2>2, PathsDiffer
  <2> HIDE DEF f
  <2> QED
    BY <2>1, <2>3, <2>4
<1> HIDE DEF f
<1>4. SeesOf(f, t, Hier(t))
  BY <1>2, <1>3 DEF SeesOf
<1> QED
  BY <1>4 DEF f, Sees

\* What is below something in the hierarchy is in the hierarchy.
LEMMA BelowLinked ==
    ASSUME NEW t, Ranked(t), NEW o, LinkedIn(t, o)
    PROVE  Below(t, o) \subseteq Hier(t)
<1> DEFINE S == {y \in DOMAIN t : y \in Below(t, o) => LinkedIn(t, y)}
<1>1. ASSUME NEW y \in DOMAIN t, HasUp(t, y) => t[y].up \in S PROVE y \in S
  <2>1. y \in Below(t, o) => y = o \/ (HasUp(t, y) /\ t[y].up \in Below(t, o))
    BY BelowDef
  <2>2. HasUp(t, y) /\ LinkedIn(t, t[y].up) => LinkedIn(t, y)
    BY LinkedDef
  <2> QED
    BY <1>1, <2>1, <2>2
<1> HIDE DEF S
<1>2. DOMAIN t \subseteq S
  BY <1>1, FromAbove
<1>3. Below(t, o) \subseteq DOMAIN t
  BY BelowDef
<1> QED
  BY <1>2, <1>3 DEF S, Hier

\* The nodes K have the same paths and are of the same sort in t and in u.
LooksSame(K, t, u) == \A y \in K : Path(u, y) = Path(t, y) /\ u[y].isStruct = t[y].isStruct

LEMMA KeptView ==
    ASSUME NEW t, NEW u, NEW K, LooksSame(K, t, u), NEW f, SeesOf(f, t, K)
    PROVE  SeesOf(f, u, K)
BY DEF SeesOf, LooksSame

\* What is seen of two sets of nodes that have no node in common.
LEMMA JoinedView ==
    ASSUME NEW t, Named(t), Siblings(t),
           NEW K \in SUBSET DOMAIN t, NEW L \in SUBSET DOMAIN t, K \cap L = {},
           NEW f, SeesOf(f, t, K), NEW g, SeesOf(g, t, L)
    PROVE  SeesOf(Tree!Joined(f, g), t, K \cup L)
<1> DEFINE h == Tree!Joined(f, g)
<1>1. /\ h = [q \in DOMAIN h |-> h[q]]
      /\ DOMAIN h = DOMAIN f \cup DOMAIN g
      /\ \A q \in DOMAIN h : h[q] = IF q \in DOMAIN f THEN f[q] ELSE g[q]
  BY DEF Tree!Joined
<1> HIDE DEF h
<1>2. \A q \in DOMAIN h : \E y \in K \cup L : q = Path(t, y)
  BY <1>1 DEF SeesOf
<1>3. ASSUME NEW y \in K PROVE Path(t, y) \in DOMAIN h /\ h[Path(t, y)] = t[y].isStruct
  BY <1>1 DEF SeesOf
<1>4. ASSUME NEW y \in L PROVE Path(t, y) \in DOMAIN h /\ h[Path(t, y)] = t[y].isStruct
  <2>1. Path(t, y) \in DOMAIN g /\ g[Path(t, y)] = t[y].isStruct
    BY DEF SeesOf
  <2>2. Path(t, y) \notin DOMAIN f
    <3> SUFFICES ASSUME NEW z \in K, Path(t, y) = Path(t, z) PROVE FALSE
      BY DEF SeesOf
    <3> QED
      BY PathsDiffer
  <2> QED
    BY <1>1, <2>1, <2>2
<1> QED
  BY <1>1, <1>2, <1>3, <1>4 DEF SeesOf, h

\* One object.
LEMMA OneView ==
    ASSUME NEW t, NEW x, NEW s, s = t[x].isStruct, NEW new, new = Path(t, x)
    PROVE  SeesOf([q \in {new} |-> s], t, {x})
BY DEF SeesOf

\* All but what is below o.
LEMMA LessView ==
    ASSUME NEW t, Named(t), Siblings(t), NEW o \in DOMAIN t, NEW f, Sees(f, t)
    PROVE  SeesOf(Tree!Without(f, Path(t, o)), t, Hier(t) \ Below(t, o))
<1> DEFINE p == Path(t, o)
           g == Tree!Without(f, p)
<1>1. /\ g = [q \in DOMAIN g |-> g[q]]
      /\ \A q : q \in DOMAIN g <=> q \in DOMAIN f /\ ~Tree!IsPrefix(p, q)
      /\ \A q \in DOMAIN g : g[q] = f[q]
  BY DEF Tree!Without, Tree!Within, Tree!Restrict
<1>2. \A y \in DOMAIN t : Tree!IsPrefix(p, Path(t, y)) <=> y \in Below(t, o)
  BY PathsBelow
<1>3. /\ \A y \in Hier(t) : Path(t, y) \in DOMAIN f /\ f[Path(t, y)] = t[y].isStruct
      /\ \A q \in DOMAIN f : \E y \in Hier(t) : q = Path(t, y)
      /\ Hier(t) \subseteq DOMAIN t
  BY DEF Sees, SeesOf, Hier
<1> HIDE DEF g, p
<1>4. ASSUME NEW y \in Hier(t) \ Below(t, o)
      PROVE  Path(t, y) \in DOMAIN g /\ g[Path(t, y)] = t[y].isStruct
  BY <1>1, <1>2, <1>3
<1>5. ASSUME NEW q \in DOMAIN g
      PROVE  \E y \in Hier(t) \ Below(t, o) : q = Path(t, y)
  <2>1. PICK y \in Hier(t) : q = Path(t, y)
    BY <1>1, <1>3
  <2> QED
    BY <1>1, <1>2, <1>3, <2>1
<1> QED
  BY <1>1, <1>4, <1>5 DEF SeesOf, g, p

\* The nodes below o, as w says which they are in u.
Planted(t, o, w) == {w[y] : y \in Below(t, o)}

\* What is seen of them.
LEMMA ReplantedView ==
    ASSUME NEW t, Named(t), Siblings(t), NEW o, LinkedIn(t, o), NEW f, Sees(f, t),
           NEW u, Named(u), NEW w, Replanted(t, u, o, w), SameSorts(t, u, o, w),
           NEW new, new = Path(u, w[o])
    PROVE  SeesOf(Tree!Seen(f, Path(t, o), new), u, Planted(t, o, w))
<1> DEFINE p == Path(t, o)
           B == Below(t, o)
           g == Tree!Seen(f, p, new)
           R(q) == Tree!Rebased(q, p, new)
           W == Tree!Within(f, p)
<1>1. o \in DOMAIN t /\ Ranked(t)
  BY DEF LinkedIn, Named
<1>2. B \subseteq Hier(t) /\ B \subseteq DOMAIN t /\ o \in B
  BY <1>1, BelowLinked, BelowDef
<1>3. p \in Seq(Nat) /\ new \in Seq(Nat) /\ \A y \in B : Path(t, y) \in Seq(Nat)
  BY <1>1, <1>2, PathOk DEF Replanted
<1>4. \A y \in B : Path(u, w[y]) = R(Path(t, y))
  BY <1>1, PathsReplanted
<1>5. \A y \in DOMAIN t : Tree!IsPrefix(p, Path(t, y)) <=> y \in B
  BY <1>1, PathsBelow
<1>6. /\ \A y \in Hier(t) : Path(t, y) \in DOMAIN f /\ f[Path(t, y)] = t[y].isStruct
      /\ \A q \in DOMAIN f : \E y \in Hier(t) : q = Path(t, y)
      /\ Hier(t) \subseteq DOMAIN t
  BY DEF Sees, SeesOf, Hier
<1>7. /\ \A y \in B : Path(t, y) \in W
      /\ \A q \in W : \E y \in B : q = Path(t, y)
  BY <1>2, <1>5, <1>6 DEF Tree!Within
<1>8. \A y \in B : Tree!Rebased(R(Path(t, y)), new, p) = Path(t, y)
  BY <1>2, <1>3, <1>5, RebasedBack
<1>9. /\ g = [r \in DOMAIN g |-> g[r]]
      /\ \A r : r \in DOMAIN g <=> \E q \in W : r = R(q)
      /\ \A r \in DOMAIN g : g[r] = f[Tree!Rebased(r, new, p)]
  BY DEF Tree!Seen
<1> HIDE DEF g, W, R, p, B
<1>10. ASSUME NEW y \in B
       PROVE  Path(u, w[y]) \in DOMAIN g /\ g[Path(u, w[y])] = u[w[y]].isStruct
  <2>1. Path(u, w[y]) \in DOMAIN g
    BY <1>4, <1>7, <1>9
  <2>2. g[Path(u, w[y])] = f[Path(t, y)]
    BY <1>4, <1>8, <1>9, <2>1
  <2>3. u[w[y]].isStruct = t[y].isStruct
    BY DEF SameSorts, B
  <2> QED
    BY <1>2, <1>6, <2>1, <2>2, <2>3
<1>11. ASSUME NEW r \in DOMAIN g PROVE \E y \in B : r = Path(u, w[y])
  BY <1>4, <1>7, <1>9
<1> QED
  BY <1>9, <1>10, <1>11 DEF SeesOf, Planted, g, p, B

-----------------------------------------------------------------------------
(* What is seen of a tree that changes *)

LEMMA StaysLooks ==
    ASSUME NEW t, Named(t), NEW u, Named(u), NEW K, StaysIn(K, t, u), SortsKept(K, t, u)
    PROVE  LooksSame(K, t, u)
BY PathsKept DEF LooksSame, SortsKept

\* The node above one in the hierarchy is in it, too.
LEMMA HierUp ==
    ASSUME NEW t, Ranked(t), NEW y \in Hier(t), HasUp(t, y)
    PROVE  t[y].up \in Hier(t)
BY LinkedDef DEF Hier, HasUp

\* A new object is seen where it was made.
LEMMA GrownView ==
    ASSUME NEW t, Objects(t), NEW u, Objects(u), NEW x, x \notin DOMAIN t,
           NEW p, LinkedIn(t, p), NEW n \in Nat, GrownBy(u, t, x, p, n), SameLinks(u, t),
           NEW s, s = u[x].isStruct, NEW f, Sees(f, t)
    PROVE  Sees(Tree!CreatedAt(f, Append(Path(t, p), n), s), u)
<1>1. Named(t) /\ Named(u) /\ Siblings(u) /\ Ranked(u)
  BY ObjectsNamed DEF Named
<1>2. DOMAIN u = DOMAIN t \cup {x} /\ u[x].up = p /\ u[x].name = n /\ \A y \in DOMAIN t : u[y] = t[y]
  BY DEF GrownBy
<1>3. \A y \in DOMAIN t : t[y].up # x
  <2>1. x # None
    BY <1>2, ConstantsOk DEF Objects, TreeOk
  <2> QED
    BY <2>1 DEF Objects, TreeOk
<1>4. \A y \in DOMAIN t : HasUp(u, y) <=> HasUp(t, y)
  BY <1>2, <1>3 DEF HasUp
<1>5. StaysIn(DOMAIN t, t, u)
  BY <1>2, <1>4 DEF StaysIn, HasUp
<1>6. LooksSame(DOMAIN t, t, u)
  BY <1>1, <1>2, <1>5, StaysLooks DEF SortsKept
<1>7. LooksSame(Hier(t), t, u)
  BY <1>6 DEF LooksSame, Hier
<1>8. SeesOf(f, u, Hier(t))
  BY <1>7, KeptView DEF Sees
<1>9. p \in DOMAIN t /\ HasUp(u, x)
  BY <1>2 DEF LinkedIn, HasUp
<1>10. Path(u, x) = Append(Path(t, p), n)
  <2>1. Longer(Path(u, x), Path(u, p), n)
    BY <1>1, <1>2, <1>9, UpOk
  <2> QED
    BY <1>6, <1>9, <2>1 DEF Longer, LooksSame
<1>11. Hier(u) = Hier(t) \cup {x}
  <2>1. LinkedIn(u, x)
    BY <1>1, <1>2, <1>9, LinkedDef DEF SameLinks
  <2> QED
    BY <1>2, <2>1 DEF Hier, SameLinks
<1> DEFINE new == Append(Path(t, p), n)
           g == [q \in {new} |-> s]
<1>12. SeesOf(g, u, {x})
  BY <1>10, OneView
<1>13. Hier(t) \in SUBSET DOMAIN u /\ {x} \in SUBSET DOMAIN u /\ Hier(t) \cap {x} = {}
  BY <1>2 DEF Hier
<1>14. Tree!CreatedAt(f, new, s) = Tree!Joined(f, g)
  BY DEF Tree!CreatedAt
<1> HIDE DEF g, new
<1>15. SeesOf(Tree!Joined(f, g), u, Hier(t) \cup {x})
  BY <1>1, <1>8, <1>12, <1>13, JoinedView
<1> QED
  BY <1>11, <1>14, <1>15 DEF Sees, new

\* Freeing what is not used is not seen.
LEMMA PrunedView ==
    ASSUME NEW t, Objects(t), NEW u, Objects(u), SameHierarchy(u, t), DOMAIN u \subseteq DOMAIN t,
           \A y \in DOMAIN t : LinkedIn(t, y) => y \in DOMAIN u /\ u[y].name = t[y].name,
           SortsKept(Hier(t), t, u), NEW f, Sees(f, t)
    PROVE  Sees(f, u)
<1>1. Named(t) /\ Named(u) /\ Ranked(t)
  BY ObjectsNamed DEF Named
<1>2. \A y \in Hier(t) : /\ y \in DOMAIN t /\ y \in DOMAIN u
                         /\ u[y].up = t[y].up /\ u[y].name = t[y].name
  BY DEF Hier, SameHierarchy
<1>3. Hier(u) = Hier(t)
  BY DEF Hier, SameHierarchy
<1>4. \A y \in Hier(t) : HasUp(t, y) => t[y].up \in Hier(t)
  BY <1>1, HierUp
<1>5. \A y \in Hier(t) : HasUp(u, y) <=> HasUp(t, y)
  BY <1>2, <1>4 DEF HasUp, Hier
<1>6. StaysIn(Hier(t), t, u)
  BY <1>2, <1>4, <1>5 DEF StaysIn
<1>7. LooksSame(Hier(t), t, u)
  BY <1>1, <1>6, StaysLooks
<1> QED
  BY <1>3, <1>7, KeptView DEF Sees

\* Nothing else changes when an object is cut off.
LEMMA CutLooks ==
    ASSUME NEW t, Objects(t), NEW o \in DOMAIN t, NEW u, Objects(u),
           CutOff(u, t, o), LinksLess(u, t, o)
    PROVE  /\ Hier(u) = Hier(t) \ Below(t, o)
           /\ LooksSame(Hier(t) \ Below(t, o), t, u)
<1> DEFINE K == Hier(t) \ Below(t, o)
<1>1. Named(t) /\ Named(u) /\ Ranked(t)
  BY ObjectsNamed DEF Named
<1>2. o \in Below(t, o) /\ \A y \in DOMAIN t : HasUp(t, y) /\ t[y].up \in Below(t, o) => y \in Below(t, o)
  BY <1>1, BelowDef
<1>3. \A y \in K : y \in DOMAIN t /\ y \in DOMAIN u /\ u[y] = t[y] /\ (HasUp(u, y) <=> HasUp(t, y))
  BY <1>2 DEF Hier, CutOff, HasUp
<1>4. \A y \in K : HasUp(t, y) => t[y].up \in K
  BY <1>1, <1>2, HierUp DEF Hier
<1>5. StaysIn(K, t, u) /\ SortsKept(K, t, u)
  BY <1>3, <1>4 DEF StaysIn, SortsKept
<1>6. LooksSame(K, t, u)
  BY <1>1, <1>5, StaysLooks
<1>7. Hier(u) = K
  BY DEF Hier, LinksLess, CutOff
<1> QED
  BY <1>6, <1>7

\* An object that is cut off is not seen any more, nor what was in it.
LEMMA CutView ==
    ASSUME NEW t, Objects(t), NEW o \in DOMAIN t, NEW u, Objects(u),
           CutOff(u, t, o), LinksLess(u, t, o), NEW f, Sees(f, t)
    PROVE  Sees(Tree!Without(f, Path(t, o)), u)
<1>1. Named(t) /\ Siblings(t)
  BY ObjectsNamed
<1>2. SeesOf(Tree!Without(f, Path(t, o)), t, Hier(t) \ Below(t, o))
  BY <1>1, LessView
<1>3. Hier(u) = Hier(t) \ Below(t, o) /\ LooksSame(Hier(t) \ Below(t, o), t, u)
  BY CutLooks
<1> QED
  BY <1>2, <1>3, KeptView DEF Sees

\* What is seen where some nodes K of t stay and what is below o is planted
\* elsewhere.
LEMMA JoinedWithSeen ==
    ASSUME NEW t, Named(t), Siblings(t), NEW o, LinkedIn(t, o), NEW f, Sees(f, t),
           NEW u, Named(u), Siblings(u), NEW w, Replanted(t, u, o, w), SameSorts(t, u, o, w),
           NEW K \in SUBSET DOMAIN u, LooksSame(K, t, u), K \cap Planted(t, o, w) = {},
           NEW g, SeesOf(g, t, K), NEW new, new = Path(u, w[o])
    PROVE  SeesOf(Tree!Joined(g, Tree!Seen(f, Path(t, o), new)), u, K \cup Planted(t, o, w))
<1> DEFINE L == Planted(t, o, w)
           h == Tree!Seen(f, Path(t, o), new)
<1>1. SeesOf(g, u, K)
  BY KeptView
<1>2. SeesOf(h, u, L)
  BY ReplantedView
<1>3. L \in SUBSET DOMAIN u
  BY DEF Planted, Replanted
<1> HIDE DEF L, h
<1>4. K \cap L = {}
  BY DEF L
<1>5. SeesOf(Tree!Joined(g, h), u, K \cup L)
  BY <1>1, <1>2, <1>3, <1>4, JoinedView
<1> QED
  BY <1>5 DEF L, h

\* What is moved is seen where it was moved to, with all that is in it, and not
\* where it was.
LEMMA MovedView ==
    ASSUME NEW t, Objects(t), NEW o, LinkedIn(t, o), NEW p, LinkedIn(t, p), p \notin Below(t, o),
           NEW n \in Nat, NEW u, Objects(u), MovedInto(u, t, o, p, n), SameLinks(u, t),
           SortsKept(DOMAIN t, t, u), NEW f, Sees(f, t)
    PROVE  Sees(Tree!MovedTo(f, Path(t, o), Append(Path(t, p), n)), u)
<1> DEFINE B == Below(t, o)
           K == Hier(t) \ B
           w == [y \in B |-> y]
           new == Append(Path(t, p), n)
           g == Tree!Without(f, Path(t, o))
<1>1. /\ Named(t) /\ Named(u) /\ Siblings(t) /\ Siblings(u) /\ Ranked(t)
      /\ o \in DOMAIN t /\ p \in DOMAIN t
  BY ObjectsNamed DEF Named, LinkedIn
<1>2. /\ B \subseteq Hier(t) /\ B \subseteq DOMAIN t /\ o \in B
      /\ \A y \in DOMAIN t : y \in B <=> y = o \/ (HasUp(t, y) /\ t[y].up \in B)
  BY <1>1, BelowLinked, BelowDef
<1>3. /\ DOMAIN u = DOMAIN t /\ \A y \in DOMAIN t \ {o} : u[y] = t[y]
      /\ u[o].up = p /\ u[o].name = n
  BY DEF MovedInto
<1>4. \A y \in DOMAIN t \ {o} : HasUp(u, y) <=> HasUp(t, y)
  BY <1>3 DEF HasUp
<1> HIDE DEF B
<1>5. \A y \in K : HasUp(t, y) => t[y].up \in K
  BY <1>1, <1>2, HierUp DEF Hier
<1>6. StaysIn(K, t, u)
  BY <1>2, <1>3, <1>4, <1>5 DEF StaysIn, Hier
<1>7. SortsKept(K, t, u)
  BY DEF SortsKept, Hier
<1>8. LooksSame(K, t, u)
  BY <1>1, <1>6, <1>7, StaysLooks
<1>9. Path(u, o) = new
  <2>1. HasUp(u, o) /\ o \in DOMAIN u
    BY <1>1, <1>3 DEF HasUp
  <2>2. Longer(Path(u, o), Path(u, p), n)
    BY <1>1, <1>3, <2>1, UpOk
  <2>3. p \in K
    BY <1>1 DEF Hier, B
  <2> QED
    BY <1>8, <2>2, <2>3 DEF LooksSame, Longer
<1>10. Replanted(t, u, o, w)
  <2>1. \A y \in B : w[y] \in DOMAIN u
    BY <1>2, <1>3
  <2>2. ASSUME NEW y \in B \ {o}
        PROVE  HasUp(u, w[y]) /\ u[w[y]].up = w[t[y].up] /\ u[w[y]].name = t[y].name
    BY <1>2, <1>3, <1>4, <2>2
  <2> QED
    BY <2>1, <2>2 DEF Replanted, B
<1>11. SameSorts(t, u, o, w)
  BY <1>2 DEF SameSorts, SortsKept, B
<1>12. Planted(t, o, w) = B
  BY DEF Planted, B
<1>13. w[o] = o
  BY <1>2
<1>14. SeesOf(g, t, K)
  BY <1>1, LessView DEF B
<1>15. K \in SUBSET DOMAIN u /\ K \cap Planted(t, o, w) = {}
  BY <1>3, <1>12 DEF Hier
<1> HIDE DEF K, w, new, g
<1>16. SeesOf(Tree!Joined(g, Tree!Seen(f, Path(t, o), new)), u, K \cup Planted(t, o, w))
  BY <1>1, <1>8, <1>9, <1>10, <1>11, <1>13, <1>14, <1>15, JoinedWithSeen
<1>17. Hier(u) = K \cup Planted(t, o, w)
  <2>1. Hier(u) = Hier(t)
    BY <1>3 DEF Hier, SameLinks
  <2> QED
    BY <1>2, <1>12, <2>1 DEF K
<1> QED
  BY <1>16, <1>17 DEF Sees, Tree!MovedTo, g, new

\* A node is not below itself.
LEMMA NotBelowUp ==
    ASSUME NEW t, Ranked(t), NEW o \in DOMAIN t, HasUp(t, o)
    PROVE  t[o].up \notin Below(t, o)
<1>1. PICK r : RankedBy(t, r)
  BY DEF Ranked
<1> DEFINE S == {y \in DOMAIN t : y \in Below(t, o) => r[o] <= r[y]}
<1>2. ASSUME NEW y \in DOMAIN t, HasUp(t, y) => t[y].up \in S PROVE y \in S
  <2>1. y \in Below(t, o) => y = o \/ (HasUp(t, y) /\ t[y].up \in Below(t, o))
    BY BelowDef
  <2>2. r[o] \in Nat /\ r[y] \in Nat
    BY <1>1 DEF RankedBy
  <2>3. HasUp(t, y) => r[t[y].up] \in Nat /\ r[t[y].up] < r[y]
    BY <1>1 DEF RankedBy, HasUp
  <2> QED
    BY <1>2, <2>1, <2>2, <2>3
<1> HIDE DEF S
<1>3. DOMAIN t \subseteq S
  BY <1>2, FromAbove
<1>4. t[o].up \in DOMAIN t /\ r[t[o].up] < r[o] /\ r[o] \in Nat /\ r[t[o].up] \in Nat
  BY <1>1 DEF RankedBy, HasUp
<1> QED
  BY <1>3, <1>4 DEF S

\* The copies are in the hierarchy if the node they were put into is, and are
\* not below what was copied.
LEMMA CopiesLinked ==
    ASSUME NEW t, Objects(t), NEW o, LinkedIn(t, o), NEW p, LinkedIn(t, p), p \notin Below(t, o),
           NEW n, NEW u, Objects(u), NEW w, CopyOf(t, o, p, n, w, u), SameLinks(u, t),
           \A y \in Below(t, o) : w[y] \notin DOMAIN t,
           \A y \in DOMAIN t : y \in Below(u, o) <=> y \in Below(t, o)
    PROVE  /\ Replanted(t, u, o, w)
           /\ Hier(u) = Hier(t) \cup Planted(t, o, w)
           /\ \A y \in Below(t, o) : w[y] \notin Below(u, o)
<1> DEFINE B == Below(t, o)
<1>1. Ranked(t) /\ Ranked(u) /\ o \in DOMAIN t /\ p \in DOMAIN t
  BY DEF Objects, TreeOk, LinkedIn
<1>2. /\ B \subseteq DOMAIN t /\ o \in B
      /\ \A y \in B : y # o => HasUp(t, y) /\ t[y].up \in B
  BY <1>1, BelowDef
<1>3. /\ DOMAIN u = DOMAIN t \cup {w[y] : y \in B} /\ \A y \in DOMAIN t : u[y] = t[y]
      /\ u[w[o]].up = p /\ u[w[o]].name = n
      /\ \A y \in B \ {o} : u[w[y]].up = w[t[y].up] /\ u[w[y]].name = t[y].name
      /\ \A y \in B : w[y] \notin DOMAIN t
  BY DEF CopyOf
<1>4. \A y \in DOMAIN u : y \in Below(u, o) <=> y = o \/ (HasUp(u, y) /\ u[y].up \in Below(u, o))
  BY <1>1, BelowDef
<1>5. \A y \in DOMAIN t : y \in Below(u, o) <=> y \in B
  OBVIOUS
<1>6. p \notin B
  OBVIOUS
<1> HIDE DEF B
<1>7. ASSUME NEW y \in B
      PROVE  w[y] \in DOMAIN u /\ HasUp(u, w[y])
  BY <1>1, <1>2, <1>3 DEF HasUp
<1>8. Replanted(t, u, o, w)
  BY <1>3, <1>7 DEF Replanted, B
<1> DEFINE S == {y \in DOMAIN t : y \in B => LinkedIn(u, w[y]) /\ w[y] \notin Below(u, o)}
<1>9. ASSUME NEW y \in DOMAIN t, HasUp(t, y) => t[y].up \in S PROVE y \in S
  <2> SUFFICES ASSUME y \in B PROVE LinkedIn(u, w[y]) /\ w[y] \notin Below(u, o)
    OBVIOUS
  <2>1. w[y] \in DOMAIN u /\ HasUp(u, w[y]) /\ w[y] # o
    BY <1>1, <1>3, <1>7
  <2>2. LinkedIn(u, w[y]) <=> LinkedIn(u, u[w[y]].up)
    BY <1>1, <2>1, LinkedDef
  <2>3. w[y] \in Below(u, o) <=> u[w[y]].up \in Below(u, o)
    BY <1>4, <2>1
  <2>4. CASE y = o
    BY <1>1, <1>3, <1>5, <1>6, <2>2, <2>3, <2>4 DEF SameLinks
  <2>5. CASE y # o
    <3>1. t[y].up \in B /\ HasUp(t, y) /\ u[w[y]].up = w[t[y].up]
      BY <1>2, <1>3, <2>5
    <3> QED
      BY <1>9, <2>2, <2>3, <3>1
  <2> QED
    BY <2>4, <2>5
<1> HIDE DEF S
<1>10. DOMAIN t \subseteq S
  BY <1>1, <1>9, FromAbove
<1>11. \A y \in B : LinkedIn(u, w[y]) /\ w[y] \notin Below(u, o)
  BY <1>2, <1>10 DEF S
<1>12. Hier(u) = Hier(t) \cup Planted(t, o, w)
  BY <1>3, <1>11 DEF Hier, SameLinks, Planted, B
<1> QED
  BY <1>8, <1>11, <1>12 DEF B

\* Nothing that was there looks different after a copy was made.
LEMMA CopyLooks ==
    ASSUME NEW t, Objects(t), NEW u, Objects(u), DOMAIN t \subseteq DOMAIN u,
           \A y \in DOMAIN t : u[y] = t[y], SameLinks(u, t)
    PROVE  LooksSame(Hier(t), t, u)
<1>1. Named(t) /\ Named(u) /\ Ranked(t) /\ Ranked(u)
  BY ObjectsNamed DEF Named
<1>2. \A y \in Hier(t) : /\ y \in DOMAIN t /\ LinkedIn(t, y) /\ LinkedIn(u, y)
                         /\ y \in DOMAIN u /\ u[y] = t[y]
  BY DEF Hier, SameLinks
<1>3. \A y \in Hier(t) : HasUp(t, y) => t[y].up \in Hier(t)
  BY <1>1, HierUp
<1>4. \A y \in Hier(t) : HasUp(u, y) <=> HasUp(t, y)
  <2> SUFFICES ASSUME NEW y \in Hier(t), HasUp(u, y) PROVE HasUp(t, y)
    BY <1>2 DEF HasUp
  <2>1. t[y].up \in DOMAIN t \cup {None}
    BY <1>2 DEF Objects, TreeOk
  <2>2. None \notin DOMAIN u
    BY ConstantsOk DEF Objects, TreeOk
  <2> QED
    BY <1>2, <2>1, <2>2 DEF HasUp
<1>5. StaysIn(Hier(t), t, u) /\ SortsKept(Hier(t), t, u)
  BY <1>2, <1>3, <1>4 DEF StaysIn, SortsKept
<1> QED
  BY <1>1, <1>5, StaysLooks

\* A copy is seen where it was made, and what was copied where it was; without
\* the one that was copied, it looks as if that had been moved.
LEMMA CopiedView ==
    ASSUME NEW t, Objects(t), NEW o, LinkedIn(t, o), NEW p, LinkedIn(t, p), p \notin Below(t, o),
           NEW n \in Nat, NEW u, Objects(u), MadeCopy(t, u, o, p, n), SameLinks(u, t),
           DOMAIN t \subseteq DOMAIN u, \A y \in DOMAIN t : u[y] = t[y],
           \A y \in DOMAIN t : y \in Below(u, o) <=> y \in Below(t, o),
           NEW f, Sees(f, t), NEW new, new = Append(Path(t, p), n)
    PROVE  /\ Sees(Tree!CopiedTo(f, Path(t, o), new), u)
           /\ SeesOf(Tree!MovedTo(f, Path(t, o), new), u, Hier(u) \ Below(u, o))
<1>1. PICK w : /\ CopyOf(t, o, p, n, w, u) /\ SameSorts(t, u, o, w)
               /\ \A y \in Below(t, o) : w[y] \notin DOMAIN t
  BY DEF MadeCopy
<1> DEFINE L == Planted(t, o, w)
           K == Hier(t) \ Below(t, o)
           g == Tree!Without(f, Path(t, o))
           h == Tree!Seen(f, Path(t, o), new)
<1>2. /\ Named(t) /\ Named(u) /\ Siblings(t) /\ Siblings(u) /\ Ranked(t) /\ Ranked(u)
      /\ o \in DOMAIN t /\ p \in DOMAIN t
  BY ObjectsNamed DEF Named, LinkedIn
<1>3. /\ Replanted(t, u, o, w)
      /\ Hier(u) = Hier(t) \cup L
      /\ \A y \in Below(t, o) : w[y] \notin Below(u, o)
  BY <1>1, CopiesLinked
<1>4. LooksSame(Hier(t), t, u)
  BY CopyLooks
<1>5. LooksSame(K, t, u)
  BY <1>4 DEF LooksSame
<1>6. new = Path(u, w[o])
  <2>1. o \in Below(t, o)
    BY <1>2, BelowDef
  <2>2. /\ w[o] \in DOMAIN u /\ u[w[o]].up = p /\ u[w[o]].name = n /\ p \in DOMAIN u
    BY <1>1, <1>2, <1>3, <2>1 DEF CopyOf, Replanted
  <2>3. Longer(Path(u, w[o]), Path(u, p), n)
    BY <1>2, <2>2, UpOk DEF HasUp
  <2>4. Path(u, p) = Path(t, p)
    BY <1>2, <1>4 DEF LooksSame, Hier
  <2> QED
    BY <2>3, <2>4 DEF Longer
<1>7. Hier(t) \in SUBSET DOMAIN u /\ K \in SUBSET DOMAIN u
  BY DEF Hier
<1>8. Hier(t) \cap L = {} /\ K \cap L = {}
  BY <1>1 DEF Planted, Hier
<1>9. Hier(u) \ Below(u, o) = K \cup L
  <2>1. L \cap Below(u, o) = {}
    BY <1>3 DEF Planted
  <2>2. \A y \in Hier(t) : y \in Below(u, o) <=> y \in Below(t, o)
    BY DEF Hier
  <2> HIDE DEF L
  <2> QED
    BY <1>3, <2>1, <2>2
<1>10. SeesOf(f, t, Hier(t))
  BY DEF Sees
<1>11. SeesOf(g, t, K)
  BY <1>2, LessView
<1> HIDE DEF K, g
<1>12. SeesOf(Tree!Joined(f, h), u, Hier(t) \cup L)
  BY <1>1, <1>2, <1>3, <1>4, <1>6, <1>7, <1>8, <1>10, JoinedWithSeen
<1>13. SeesOf(Tree!Joined(g, h), u, K \cup L)
  BY <1>1, <1>2, <1>3, <1>5, <1>6, <1>7, <1>8, <1>11, JoinedWithSeen
<1>14. Tree!CopiedTo(f, Path(t, o), new) = Tree!Joined(f, h)
  BY DEF Tree!CopiedTo
<1>15. Tree!MovedTo(f, Path(t, o), new) = Tree!Joined(g, h)
  BY DEF Tree!MovedTo, g
<1> HIDE DEF h, L
<1> QED
  BY <1>3, <1>9, <1>12, <1>13, <1>14, <1>15 DEF Sees

\* Then it is a move if what was copied is cut off.
LEMMA MovedByCopyView ==
    ASSUME NEW u, Objects(u), NEW o \in DOMAIN u, NEW v, Objects(v),
           CutOff(v, u, o), LinksLess(v, u, o),
           NEW f, SeesOf(f, u, Hier(u) \ Below(u, o))
    PROVE  Sees(f, v)
<1>1. Hier(v) = Hier(u) \ Below(u, o) /\ LooksSame(Hier(u) \ Below(u, o), u, v)
  BY CutLooks
<1> QED
  BY <1>1, KeptView DEF Sees

-----------------------------------------------------------------------------
(* The calls as users see them *)

\* What is in a group is in a structure.
Upright(t) == \A y \in Hier(t) : HasUp(t, y) => t[t[y].up].isStruct

\* That is so still after an object was created in a structure, ...
LEMMA GrownUpright ==
    ASSUME NEW t, Objects(t), Upright(t), NEW u, NEW x, x \notin DOMAIN t,
           NEW p \in DOMAIN t, t[p].isStruct, NEW n, GrownBy(u, t, x, p, n), SameLinks(u, t),
           x # None
    PROVE  Upright(u)
<1>1. /\ DOMAIN u = DOMAIN t \cup {x} /\ u[x].up = p /\ \A y \in DOMAIN t : u[y] = t[y]
  BY DEF GrownBy
<1>2. \A y \in DOMAIN t : t[y].up \in DOMAIN t \cup {None}
  BY DEF Objects, TreeOk
<1>3. ASSUME NEW y \in Hier(u), y # x, HasUp(u, y) PROVE y \in Hier(t) /\ HasUp(t, y)
  BY <1>1, <1>2, <1>3 DEF Hier, SameLinks, HasUp
<1> SUFFICES ASSUME NEW y \in Hier(u), HasUp(u, y) PROVE u[u[y].up].isStruct
  BY DEF Upright
<1>4. CASE y = x
  BY <1>1, <1>4
<1>5. CASE y # x
  <2>1. y \in Hier(t) /\ HasUp(t, y)
    BY <1>3, <1>5
  <2>2. t[t[y].up].isStruct
    BY <2>1 DEF Upright
  <2>3. y \in DOMAIN t /\ t[y].up \in DOMAIN t
    BY <2>1 DEF Hier, HasUp
  <2> QED
    BY <1>1, <2>2, <2>3
<1> QED
  BY <1>4, <1>5

\* ... something was freed or cut off, ...
LEMMA PrunedUpright ==
    ASSUME NEW t, Objects(t), Upright(t), NEW u, SameHierarchy(u, t), DOMAIN u \subseteq DOMAIN t,
           \A y \in DOMAIN t : LinkedIn(t, y) => y \in DOMAIN u, SortsKept(Hier(t), t, u)
    PROVE  Upright(u)
<1>1. Ranked(t)
  BY DEF Objects, TreeOk
<1>2. ASSUME NEW y \in Hier(u), HasUp(u, y) PROVE y \in Hier(t) /\ HasUp(t, y) /\ u[y].up = t[y].up
  BY <1>2 DEF Hier, SameHierarchy, HasUp
<1> SUFFICES ASSUME NEW y \in Hier(u), HasUp(u, y) PROVE u[u[y].up].isStruct
  BY DEF Upright
<1>3. y \in Hier(t) /\ HasUp(t, y) /\ u[y].up = t[y].up
  BY <1>2
<1>4. t[y].up \in Hier(t)
  BY <1>1, <1>3, HierUp
<1> QED
  BY <1>3, <1>4 DEF Upright, SortsKept

LEMMA CutUpright ==
    ASSUME NEW t, Objects(t), Upright(t), NEW o \in DOMAIN t, NEW u,
           CutOff(u, t, o), LinksLess(u, t, o)
    PROVE  Upright(u)
<1>1. /\ Ranked(t) /\ o \in Below(t, o)
      /\ \A y \in DOMAIN t : HasUp(t, y) /\ t[y].up \in Below(t, o) => y \in Below(t, o)
  BY BelowDef DEF Objects, TreeOk
<1>2. ASSUME NEW y \in Hier(u), HasUp(u, y)
      PROVE  y \in Hier(t) /\ HasUp(t, y) /\ u[y].up = t[y].up /\ u[u[y].up] = t[t[y].up]
  <2>1. y \in DOMAIN t /\ LinkedIn(t, y) /\ y \notin Below(t, o)
    BY DEF Hier, LinksLess, CutOff
  <2>2. u[y] = t[y] /\ HasUp(t, y)
    BY <1>1, <1>2, <2>1 DEF CutOff, HasUp
  <2>3. t[y].up # o
    BY <1>1, <2>1, <2>2
  <2> QED
    BY <2>1, <2>2, <2>3 DEF Hier, CutOff, HasUp
<1> QED
  BY <1>2 DEF Upright

\* ... or something was moved or copied into a structure.
LEMMA MovedUpright ==
    ASSUME NEW t, Upright(t), NEW o, NEW p \in DOMAIN t, t[p].isStruct, NEW n,
           NEW u, MovedInto(u, t, o, p, n), SameLinks(u, t), SortsKept(DOMAIN t, t, u)
    PROVE  Upright(u)
<1>1. /\ DOMAIN u = DOMAIN t /\ u[o].up = p /\ \A y \in DOMAIN t \ {o} : u[y] = t[y]
  BY DEF MovedInto
<1>2. ASSUME NEW y \in Hier(u), HasUp(u, y) PROVE u[u[y].up].isStruct
  <2>1. CASE y = o
    BY <1>1, <2>1 DEF SortsKept
  <2>2. CASE y # o
    <3>1. y \in Hier(t) /\ HasUp(t, y) /\ u[y].up = t[y].up
      BY <1>1, <1>2, <2>2 DEF Hier, SameLinks, HasUp
    <3> QED
      BY <3>1 DEF Upright, SortsKept, HasUp
  <2> QED
    BY <2>1, <2>2
<1> QED
  BY <1>2 DEF Upright

LEMMA CopiedUpright ==
    ASSUME NEW t, Objects(t), Upright(t), NEW o, LinkedIn(t, o), NEW p, LinkedIn(t, p),
           p \notin Below(t, o), t[p].isStruct,
           NEW n, NEW u, Objects(u), MadeCopy(t, u, o, p, n), SameLinks(u, t),
           DOMAIN t \subseteq DOMAIN u, \A y \in DOMAIN t : u[y] = t[y],
           \A y \in DOMAIN t : y \in Below(u, o) <=> y \in Below(t, o)
    PROVE  Upright(u)
<1>1. PICK w : /\ CopyOf(t, o, p, n, w, u) /\ SameSorts(t, u, o, w)
               /\ \A y \in Below(t, o) : w[y] \notin DOMAIN t
  BY DEF MadeCopy
<1>2. Hier(u) = Hier(t) \cup Planted(t, o, w)
  BY <1>1, CopiesLinked
<1>3. Ranked(t) /\ p \in DOMAIN t /\ o \in DOMAIN t
  BY DEF Objects, TreeOk, LinkedIn
<1>4. /\ Below(t, o) \subseteq Hier(t)
      /\ \A y \in Below(t, o) : y # o => HasUp(t, y) /\ t[y].up \in Below(t, o)
  BY <1>3, BelowLinked, BelowDef
<1>5. ASSUME NEW y \in Hier(t), HasUp(u, y) PROVE u[u[y].up].isStruct
  <2>1. y \in DOMAIN t /\ u[y] = t[y] /\ t[y].up \in DOMAIN t \cup {None}
    BY DEF Hier, Objects, TreeOk
  <2>2. None \notin DOMAIN u
    BY ConstantsOk DEF Objects, TreeOk
  <2>3. HasUp(t, y)
    BY <1>5, <2>1, <2>2 DEF HasUp
  <2> QED
    BY <2>1, <2>3 DEF Upright, HasUp
<1>6. ASSUME NEW y \in Below(t, o) PROVE u[u[w[y]].up].isStruct
  <2>1. CASE y = o
    BY <1>1, <1>3, <2>1 DEF CopyOf
  <2>2. CASE y # o
    <3>1. u[w[y]].up = w[t[y].up] /\ HasUp(t, y) /\ t[y].up \in Below(t, o) /\ y \in Hier(t)
      BY <1>1, <1>4, <2>2 DEF CopyOf
    <3>2. u[w[t[y].up]].isStruct = t[t[y].up].isStruct
      BY <1>1, <3>1 DEF SameSorts
    <3> QED
      BY <3>1, <3>2 DEF Upright
  <2> QED
    BY <2>1, <2>2
<1> QED
  BY <1>2, <1>5, <1>6 DEF Upright, Planted

\* ByPath sees the objects, and is all that does.
LEMMA ByPathIs ==
    /\ ByPath = ByPathOf(obj)
    /\ ByPath' = ByPathOf(obj)'
BY DEF ByPath, ByPathOf, Linked, LinkedIn, Hier

LEMMA SeenNow ==
    ASSUME Objects(obj)
    PROVE  Sees(ByPath, obj)
BY ByPathIs, ByPathSees

LEMMA SeenNext ==
    ASSUME Objects(obj'), NEW f, Sees(f, obj')
    PROVE  ByPath' = f
<1>1. ByPath' = ByPathOf(obj')
  BY ByPathIs
<1>2. Sees(ByPathOf(obj'), obj')
  BY ByPathSees
<1> QED
  BY <1>1, <1>2, SeesOne DEF Sees

\* A vacant place in a structure.
LEMMA PlaceOk ==
    ASSUME NEW t, Objects(t), NEW f, Sees(f, t),
           NEW p, LinkedIn(t, p), t[p].isStruct, NEW n \in Name, Child(t, p, n) = {}
    PROVE  Append(Path(t, p), n) \in Tree!Vacant(f)
<1> DEFINE new == Append(Path(t, p), n)
<1>1. Named(t) /\ p \in DOMAIN t /\ n \in Nat /\ Path(t, p) \in Seq(Nat) /\ Path(t, p) # <<>>
  BY ObjectsNamed, ConstantsOk, PathOk DEF LinkedIn
<1>2. Path(t, p) \in DOMAIN f /\ f[Path(t, p)]
  BY <1>1 DEF Sees, SeesOf, Hier
<1>3. ASSUME NEW y \in Hier(t), new = Path(t, y) PROVE FALSE
  <2>1. y \in DOMAIN t /\ Longer(new, Path(t, p), n)
    BY DEF Hier, Longer
  <2> HIDE DEF new
  <2>2. HasUp(t, y)
    <3> SUFFICES ASSUME ~HasUp(t, y) PROVE FALSE
      OBVIOUS
    <3>1. Alone(new, y)
      BY <1>1, <1>3, <2>1, PathDef
    <3> QED
      BY <1>1, <2>1, <3>1, LongerNotAlone
  <2> DEFINE q == Path(t, t[y].up)
             m == t[y].name
  <2>3. q \in Seq(Nat) /\ m \in Nat /\ Longer(Path(t, y), q, m) /\ t[y].up \in DOMAIN t
    BY <1>1, <2>1, <2>2, UpOk
  <2> HIDE DEF q, m
  <2>4. q = Path(t, p) /\ m = n
    BY <1>1, <1>3, <2>1, <2>3, LongerOnce
  <2>5. t[y].up = p
    BY <1>1, <2>3, <2>4, ObjectsNamed, PathsDiffer DEF q
  <2> QED
    BY <2>1, <2>4, <2>5 DEF Child, m
<1>4. new \notin DOMAIN f
  BY <1>3 DEF Sees, SeesOf
<1> QED
  BY <1>2, <1>4 DEF Tree!Vacant

\* It is not in o if the structure is not.
LEMMA OutsideOk ==
    ASSUME NEW t, Objects(t), NEW f, Sees(f, t),
           NEW p, LinkedIn(t, p), t[p].isStruct, NEW n \in Name, Child(t, p, n) = {},
           NEW o, LinkedIn(t, o), p \notin Below(t, o)
    PROVE  /\ Path(t, o) \in DOMAIN f
           /\ Append(Path(t, p), n) \in Tree!Outside(f, Path(t, o))
<1> DEFINE new == Append(Path(t, p), n)
           q == Path(t, o)
<1>1. /\ Named(t) /\ Siblings(t) /\ p \in DOMAIN t /\ o \in DOMAIN t /\ n \in Nat
      /\ Path(t, p) \in Seq(Nat) /\ q \in Seq(Nat)
  BY ObjectsNamed, ConstantsOk, PathOk DEF LinkedIn
<1>2. q \in DOMAIN f
  BY <1>1 DEF Sees, SeesOf, Hier
<1>3. new \in Tree!Vacant(f) /\ new \notin DOMAIN f
  BY PlaceOk DEF Tree!Vacant
<1>4. Longer(new, Path(t, p), n)
  BY DEF Longer
<1>5. ~Tree!IsPrefix(q, Path(t, p))
  BY <1>1, PathsBelow
<1> HIDE DEF new, q
<1>6. ~Tree!IsPrefix(q, new)
  BY <1>1, <1>2, <1>3, <1>4, <1>5, BeginsLonger
<1> QED
  BY <1>2, <1>3, <1>6 DEF Tree!Outside, new, q

\* What is not at the top is in a structure.
LEMMA ComponentOk ==
    ASSUME NEW t, Objects(t), NEW f, Sees(f, t), NEW o, LinkedIn(t, o), o \notin Root
    PROVE  /\ o \in DOMAIN t /\ HasUp(t, o) /\ LinkedIn(t, t[o].up)
           /\ Path(t, o) \in Tree!Components(f)
<1>1. Named(t) /\ Ranked(t) /\ o \in DOMAIN t
  BY ObjectsNamed DEF Named, LinkedIn
<1>2. HasUp(t, o) /\ LinkedIn(t, t[o].up)
  BY <1>1, LinkedDef
<1>3. Path(t, o) \in DOMAIN f
  BY <1>1 DEF Sees, SeesOf, Hier
<1>4. Len(Path(t, o)) > 1
  <2> DEFINE q == Path(t, t[o].up)
             n == t[o].name
  <2>1. q \in Seq(Nat) /\ q # <<>> /\ n \in Nat /\ Longer(Path(t, o), q, n)
    BY <1>1, <1>2, UpOk
  <2> HIDE DEF q, n
  <2>2. Len(Path(t, o)) = Len(q) + 1 /\ Len(q) \in Nat /\ Len(q) # 0
    BY <2>1, AppendedOk
  <2> QED
    BY <2>2
<1> QED
  BY <1>1, <1>2, <1>3, <1>4 DEF Tree!Components

\* What the abstract calls may make of f.
LEMMA AfterOk ==
    ASSUME NEW f
    PROVE  /\ \A new \in Tree!Vacant(f), s \in BOOLEAN : Tree!CreatedAt(f, new, s) \in Tree!After(f)
           /\ \A p \in Tree!Components(f) :
                 /\ p \in DOMAIN f
                 /\ Tree!Without(f, p) \in Tree!After(f)
                 /\ \A new \in Tree!Outside(f, p) : Tree!MovedTo(f, p, new) \in Tree!After(f)
           /\ \A p \in DOMAIN f : \A new \in Tree!Outside(f, p) :
                 Tree!CopiedTo(f, p, new) \in Tree!After(f)
<1> DEFINE C == {Tree!CreatedAt(f, new, s) : new \in Tree!Vacant(f), s \in BOOLEAN}
           W == {Tree!Without(f, p) : p \in Tree!Components(f)}
           K(p) == {Tree!CopiedTo(f, p, new) : new \in Tree!Outside(f, p)}
           M(p) == {Tree!MovedTo(f, p, new) : new \in Tree!Outside(f, p)}
           KK == UNION {K(p) : p \in DOMAIN f}
           MM == UNION {M(p) : p \in Tree!Components(f)}
<1>1. Tree!After(f) = C \cup W \cup KK \cup MM
  BY DEF Tree!After
<1>2. ASSUME NEW new \in Tree!Vacant(f), NEW s \in BOOLEAN PROVE Tree!CreatedAt(f, new, s) \in C
  OBVIOUS
<1>3. ASSUME NEW p \in Tree!Components(f) PROVE p \in DOMAIN f /\ Tree!Without(f, p) \in W
  BY DEF Tree!Components
<1>4. ASSUME NEW p \in Tree!Components(f), NEW new \in Tree!Outside(f, p)
      PROVE  Tree!MovedTo(f, p, new) \in MM
  <2>1. Tree!MovedTo(f, p, new) \in M(p)
    OBVIOUS
  <2> HIDE DEF M
  <2> QED
    BY <2>1
<1>5. ASSUME NEW p \in DOMAIN f, NEW new \in Tree!Outside(f, p)
      PROVE  Tree!CopiedTo(f, p, new) \in KK
  <2>1. Tree!CopiedTo(f, p, new) \in K(p)
    OBVIOUS
  <2> HIDE DEF K
  <2> QED
    BY <2>1
<1> HIDE DEF C, W, KK, MM
<1> QED
  BY <1>1, <1>2, <1>3, <1>4, <1>5

\* A locator that may be used is for an object in the hierarchy.
LEMMA UsedLinked ==
    ASSUME Careful, TreesInv, NEW k, Valid(k), MayUse(k)
    PROVE  LinkedIn(obj, locs[k].obj) /\ locs[k].obj \in DOMAIN obj
<1>1. PICK at : Match(obj, handle, at) /\ \A j \in Used : FitsIn(obj, handle, at, locs, j)
  BY DEF TreesInv, InStep
<1> QED
  BY <1>1, HandleOfUsed

\* Freeing what is not used is not seen.
LEMMA FreedSeen ==
    ASSUME TreesInv', NEW u, Objects(u), Upright(u), NEW l, PointInto(l, u),
           obj' = InUse(u, l), NEW f, Sees(f, u)
    PROVE  Upright(obj') /\ ByPath' = f
<1>1. /\ Objects(obj') /\ SameHierarchy(obj', u) /\ DOMAIN obj' \subseteq DOMAIN u
      /\ \A y \in DOMAIN u : LinkedIn(u, y) => y \in DOMAIN obj' /\ obj'[y].name = u[y].name
      /\ SortsKept(Hier(u), u, obj')
  BY InUseOk DEF PointInto
<1>2. Upright(obj')
  BY <1>1, PrunedUpright
<1>3. Sees(f, obj')
  BY <1>1, PrunedView
<1> QED
  BY <1>1, <1>2, <1>3, SeenNext

\* datNew and datCcopy
LEMMA CreatedSeen ==
    ASSUME TreesInv, Upright(obj), NEW p, LinkedIn(obj, p), obj[p].isStruct,
           NEW n \in Name, Child(obj, p, n) = {}, RoomFor(1), NEW s \in BOOLEAN,
           obj' = Created(obj, p, n, s)
    PROVE  Upright(obj') /\ ByPath' \in Tree!After(ByPath)
<1> DEFINE x == Min(1..MaxObject \ DOMAIN obj)
           new == Append(Path(obj, p), n)
<1>1. Objects(obj) /\ p \in DOMAIN obj /\ n \in Nat /\ Sees(ByPath, obj)
  BY ConstantsOk, SeenNow DEF TreesInv, LinkedIn
<1>2. (1..MaxObject) \ DOMAIN obj # {}
  BY RoomForOne
<1> HIDE DEF x
<1>3. /\ Objects(obj') /\ x \notin DOMAIN obj /\ GrownBy(obj', obj, x, p, n)
      /\ SameLinks(obj', obj) /\ obj'[x].isStruct = s
  BY <1>1, <1>2, CreatedOk DEF x
<1>4. x # None
  <2>1. x \in DOMAIN obj'
    BY <1>3 DEF GrownBy
  <2> QED
    BY <1>3, <2>1, ConstantsOk DEF Objects, TreeOk
<1>5. Upright(obj')
  BY <1>1, <1>3, <1>4, GrownUpright
<1>6. Sees(Tree!CreatedAt(ByPath, new, s), obj')
  BY <1>1, <1>3, GrownView
<1>7. ByPath' = Tree!CreatedAt(ByPath, new, s)
  BY <1>3, <1>6, SeenNext
<1>8. new \in Tree!Vacant(ByPath)
  BY <1>1, PlaceOk
<1> QED
  BY <1>5, <1>7, <1>8, AfterOk

\* datAnnul
LEMMA AnnulSeen ==
    ASSUME TreesInv, TreesInv', Upright(obj), NEW k, DatAnnul(k)
    PROVE  Upright(obj') /\ ByPath' = ByPath
<1>1. Objects(obj) /\ Locators(locs, obj)
  BY DEF TreesInv
<1>2. locs' = Restrict(locs, DOMAIN locs \ {k}) /\ obj' = InUse(obj, locs')
  BY DEF DatAnnul
<1>3. PointInto(locs', obj)
  BY <1>1, <1>2 DEF Locators, PointInto, Restrict
<1>4. Sees(ByPath, obj)
  BY <1>1, SeenNow
<1> QED
  BY <1>1, <1>2, <1>3, <1>4, FreedSeen

\* datNew
LEMMA NewSeen ==
    ASSUME Careful, TreesInv, TreesInv', Upright(obj),
           NEW k, NEW n \in Name, NEW s \in BOOLEAN, DatNew(k, n, s)
    PROVE  Upright(obj') /\ ByPath' \in Tree!After(ByPath)
<1>1. /\ Valid(k) /\ MayUse(k) /\ RoomFor(1) /\ obj' = Created(obj, locs[k].obj, n, s)
      /\ obj[locs[k].obj].isStruct /\ Child(obj, locs[k].obj, n) = {}
  BY DEF DatNew, Vacant, Structure
<1>2. LinkedIn(obj, locs[k].obj)
  BY <1>1, UsedLinked
<1> QED
  BY <1>1, <1>2, CreatedSeen

\* datCcopy
LEMMA CcopySeen ==
    ASSUME Careful, TreesInv, TreesInv', Upright(obj),
           NEW k, NEW p, NEW n \in Name, DatCcopy(k, p, n)
    PROVE  Upright(obj') /\ ByPath' \in Tree!After(ByPath)
<1>1. /\ Valid(p) /\ MayUse(p) /\ Valid(k) /\ MayUse(k) /\ RoomFor(1)
      /\ obj' = Created(obj, locs[p].obj, n, Structure(k))
      /\ obj[locs[p].obj].isStruct /\ Child(obj, locs[p].obj, n) = {}
  BY DEF DatCcopy, Vacant, Structure
<1>2. LinkedIn(obj, locs[p].obj) /\ locs[k].obj \in DOMAIN obj
  BY <1>1, UsedLinked
<1>3. Structure(k) \in BOOLEAN
  BY <1>2 DEF Structure, TreesInv, Objects, ObjectRecord
<1> QED
  BY <1>1, <1>2, <1>3, CreatedSeen

\* datErase
LEMMA EraseSeen ==
    ASSUME Careful, TreesInv, TreesInv', Upright(obj), NEW k, NEW n \in Name, DatErase(k, n)
    PROVE  Upright(obj') /\ ByPath' \in Tree!After(ByPath)
<1>1. Objects(obj) /\ Locators(locs, obj) /\ Sees(ByPath, obj)
  BY SeenNow DEF TreesInv
<1>2. Valid(k) /\ MayUse(k)
  BY DEF DatErase
<1>3. PICK c \in Child(obj, locs[k].obj, n) : obj' = InUse(Cut(obj, c), locs)
  BY DEF DatErase
<1>4. LinkedIn(obj, locs[k].obj) /\ locs[k].obj \in DOMAIN obj
  BY <1>2, UsedLinked
<1>5. c \in DOMAIN obj /\ obj[c].up = locs[k].obj
  BY <1>3 DEF Child
<1>6. Named(obj) /\ Ranked(obj) /\ TreeOk(obj, MaxObject) /\ MaxObject \in Nat
  BY <1>1, ConstantsOk, ObjectsNamed DEF Objects, Named
<1>7. HasUp(obj, c)
  BY <1>4, <1>5 DEF HasUp
<1>8. c \notin Root
  BY <1>6, <1>7, RootsOnTop
<1>9. LinkedIn(obj, c)
  BY <1>4, <1>5, <1>6, <1>7, LinkedDef
<1>10. Path(obj, c) \in Tree!Components(ByPath)
  BY <1>1, <1>8, <1>9, ComponentOk
<1> DEFINE u == Cut(obj, c)
<1> HIDE DEF u
<1>11. Objects(u) /\ CutOff(u, obj, c) /\ LinksLess(u, obj, c)
  BY <1>1, <1>5, <1>8, CutOk DEF u
<1>12. PointInto(locs, u)
  BY <1>1, <1>11 DEF PointInto, Locators, CutOff
<1>13. Upright(u) /\ Sees(Tree!Without(ByPath, Path(obj, c)), u)
  BY <1>1, <1>5, <1>11, CutUpright, CutView
<1>14. obj' = InUse(u, locs)
  BY <1>3 DEF u
<1>15. Upright(obj') /\ ByPath' = Tree!Without(ByPath, Path(obj, c))
  BY <1>11, <1>12, <1>13, <1>14, FreedSeen
<1> QED
  BY <1>10, <1>15, AfterOk

\* The places that a copy or a move is from and to.
LEMMA PlacesOk ==
    ASSUME Careful, TreesInv, NEW k, NEW p, NEW n \in Name,
           Valid(k), MayUse(k), Valid(p), MayUse(p), Vacant(p, n), Outside(k, p)
    PROVE  /\ Objects(obj) /\ Locators(locs, obj) /\ Sees(ByPath, obj)
           /\ LinkedIn(obj, locs[k].obj) /\ LinkedIn(obj, locs[p].obj)
           /\ locs[k].obj \in DOMAIN obj /\ locs[p].obj \in DOMAIN obj
           /\ locs[p].obj \notin Below(obj, locs[k].obj)
           /\ obj[locs[p].obj].isStruct /\ Child(obj, locs[p].obj, n) = {}
           /\ PathOf(k) \in DOMAIN ByPath
           /\ NewPath(p, n) \in Tree!Outside(ByPath, PathOf(k))
<1>1. Objects(obj) /\ Locators(locs, obj) /\ Sees(ByPath, obj)
  BY SeenNow DEF TreesInv
<1>2. /\ LinkedIn(obj, locs[k].obj) /\ LinkedIn(obj, locs[p].obj)
      /\ locs[k].obj \in DOMAIN obj /\ locs[p].obj \in DOMAIN obj
  BY UsedLinked
<1>3. /\ locs[p].obj \notin Below(obj, locs[k].obj)
      /\ obj[locs[p].obj].isStruct /\ Child(obj, locs[p].obj, n) = {}
  BY DEF Outside, Vacant, Structure
<1>4. /\ Path(obj, locs[k].obj) \in DOMAIN ByPath
      /\ Append(Path(obj, locs[p].obj), n) \in Tree!Outside(ByPath, Path(obj, locs[k].obj))
  BY <1>1, <1>2, <1>3, OutsideOk
<1> QED
  BY <1>1, <1>2, <1>3, <1>4 DEF PathOf, NewPath

\* datCopy, and datMove when it stops half way.
LEMMA CopySeen ==
    ASSUME Careful, TreesInv, TreesInv', Upright(obj), NEW k, NEW p, NEW n \in Name,
           Valid(k), MayUse(k), Valid(p), MayUse(p), Vacant(p, n), Outside(k, p),
           RoomFor(Cardinality(Below(obj, locs[k].obj))),
           obj' = Copied(obj, locs[k].obj, locs[p].obj, n)
    PROVE  /\ Upright(obj') /\ ByPath' \in Tree!After(ByPath)
           /\ ByPath' = Tree!CopiedTo(ByPath, PathOf(k), NewPath(p, n))
<1> DEFINE o == locs[k].obj
           q == locs[p].obj
<1>1. /\ Objects(obj) /\ Sees(ByPath, obj) /\ LinkedIn(obj, o) /\ LinkedIn(obj, q)
      /\ q \notin Below(obj, o) /\ obj[q].isStruct
      /\ PathOf(k) \in DOMAIN ByPath
      /\ NewPath(p, n) \in Tree!Outside(ByPath, PathOf(k))
  BY PlacesOk
<1>2. /\ Objects(obj') /\ DOMAIN obj \subseteq DOMAIN obj'
      /\ \A y \in DOMAIN obj : obj'[y] = obj[y]
      /\ SameLinks(obj', obj) /\ MadeCopy(obj, obj', o, q, n)
      /\ \A y \in DOMAIN obj : y \in Below(obj', o) <=> y \in Below(obj, o)
  BY CopyMade
<1>3. n \in Nat /\ PathOf(k) = Path(obj, o) /\ NewPath(p, n) = Append(Path(obj, q), n)
  BY ConstantsOk DEF PathOf, NewPath
<1> HIDE DEF o, q
<1>4. Upright(obj')
  BY <1>1, <1>2, CopiedUpright
<1>5. Sees(Tree!CopiedTo(ByPath, PathOf(k), NewPath(p, n)), obj')
  BY <1>1, <1>2, <1>3, CopiedView
<1>6. ByPath' = Tree!CopiedTo(ByPath, PathOf(k), NewPath(p, n))
  BY <1>2, <1>5, SeenNext
<1> QED
  BY <1>1, <1>4, <1>6, AfterOk

\* datMove within one file_id
LEMMA MoveLinkSeen ==
    ASSUME Careful, TreesInv, TreesInv', Upright(obj), NEW k, NEW p, NEW n \in Name,
           Movable(k), Valid(p), MayUse(p), Vacant(p, n), Outside(k, p),
           locs' = Restrict(locs, DOMAIN locs \ {k}), MoveLink(k, p, n)
    PROVE  Upright(obj') /\ ByPath' = Tree!MovedTo(ByPath, PathOf(k), NewPath(p, n))
<1> DEFINE o == locs[k].obj
           q == locs[p].obj
           u == [obj EXCEPT ![o].up = q, ![o].name = n]
<1>1. Valid(k) /\ MayUse(k) /\ o \notin Root /\ obj' = InUse(u, locs')
  BY DEF Movable, MoveLink
<1>2. /\ Objects(obj) /\ Locators(locs, obj) /\ Sees(ByPath, obj)
      /\ LinkedIn(obj, o) /\ LinkedIn(obj, q) /\ o \in DOMAIN obj /\ q \in DOMAIN obj
      /\ q \notin Below(obj, o) /\ obj[q].isStruct /\ Child(obj, q, n) = {}
  BY <1>1, PlacesOk
<1>3. n \in Nat /\ PathOf(k) = Path(obj, o) /\ NewPath(p, n) = Append(Path(obj, q), n)
  BY ConstantsOk DEF PathOf, NewPath
<1>4. /\ DOMAIN u = DOMAIN obj /\ u = [y \in DOMAIN u |-> u[y]]
      /\ \A y \in DOMAIN obj \ {o} : u[y] = obj[y]
      /\ u[o] = [obj[o] EXCEPT !.up = q, !.name = n]
  BY <1>2 DEF Objects, ObjectRecord
<1> HIDE DEF u
<1>5. u[o] \in ObjectRecord /\ u[o].up = q /\ u[o].name = n /\ u[o].isStruct = obj[o].isStruct
  <2>1. q \in Nat /\ n \in Nat
    BY <1>2, ConstantsOk DEF Objects, TreeOk
  <2>2. obj[o] \in ObjectRecord
    BY <1>2 DEF Objects
  <2> QED
    BY <1>4, <2>1, <2>2 DEF ObjectRecord
<1>6. u \in [DOMAIN obj -> ObjectRecord]
  <2>1. \A y \in DOMAIN u : u[y] \in ObjectRecord
    BY <1>2, <1>4, <1>5 DEF Objects
  <2> QED
    BY <1>4, <2>1
<1>7. MovedInto(u, obj, o, q, n) /\ SortsKept(DOMAIN obj, obj, u)
  BY <1>4, <1>5 DEF MovedInto, SortsKept
<1>8. Objects(u) /\ SameLinks(u, obj)
  BY <1>1, <1>2, <1>6, <1>7, PlacedOk
<1>9. PointInto(locs', u)
  BY <1>2, <1>4 DEF Locators, PointInto, Restrict
<1> HIDE DEF o, q
<1>10. Upright(u)
  BY <1>2, <1>7, <1>8, MovedUpright
<1>11. Sees(Tree!MovedTo(ByPath, PathOf(k), NewPath(p, n)), u)
  BY <1>2, <1>3, <1>7, <1>8, MovedView
<1> QED
  BY <1>1, <1>8, <1>9, <1>10, <1>11, FreedSeen

\* datMove between two
LEMMA MoveCopySeen ==
    ASSUME Careful, TreesInv, TreesInv', Upright(obj), NEW k, NEW p, NEW n \in Name,
           Movable(k), Valid(p), MayUse(p), Vacant(p, n), Outside(k, p),
           locs' = Restrict(locs, DOMAIN locs \ {k}), MoveCopy(k, p, n)
    PROVE  Upright(obj') /\ ByPath' = Tree!MovedTo(ByPath, PathOf(k), NewPath(p, n))
<1> DEFINE o == locs[k].obj
           q == locs[p].obj
           v == Copied(obj, o, q, n)
           u == Cut(v, o)
<1>1. /\ Valid(k) /\ MayUse(k) /\ o \notin Root
      /\ RoomFor(Cardinality(Below(obj, o))) /\ obj' = InUse(u, locs')
  BY DEF Movable, MoveCopy
<1>2. /\ Objects(obj) /\ Locators(locs, obj) /\ Sees(ByPath, obj)
      /\ LinkedIn(obj, o) /\ LinkedIn(obj, q) /\ o \in DOMAIN obj
      /\ q \notin Below(obj, o) /\ obj[q].isStruct
  BY <1>1, PlacesOk
<1>3. n \in Nat /\ PathOf(k) = Path(obj, o) /\ NewPath(p, n) = Append(Path(obj, q), n)
  BY ConstantsOk DEF PathOf, NewPath
<1>4. /\ Objects(v) /\ DOMAIN obj \subseteq DOMAIN v
      /\ \A y \in DOMAIN obj : v[y] = obj[y]
      /\ SameLinks(v, obj) /\ MadeCopy(obj, v, o, q, n)
      /\ \A y \in DOMAIN obj : y \in Below(v, o) <=> y \in Below(obj, o)
  BY <1>1, CopyMade
<1> HIDE DEF v
<1>5. o \in DOMAIN v \ Root
  BY <1>1, <1>2, <1>4
<1>6. Objects(u) /\ CutOff(u, v, o) /\ LinksLess(u, v, o)
  BY <1>4, <1>5, CutOk
<1> HIDE DEF u
<1>7. PointInto(locs', u)
  BY <1>2, <1>4, <1>6 DEF Locators, PointInto, Restrict, CutOff
<1> HIDE DEF o, q
<1>8. Upright(v)
  BY <1>2, <1>4, CopiedUpright
<1>9. Upright(u)
  BY <1>4, <1>5, <1>6, <1>8, CutUpright
<1>10. SeesOf(Tree!MovedTo(ByPath, PathOf(k), NewPath(p, n)), v, Hier(v) \ Below(v, o))
  BY <1>2, <1>3, <1>4, CopiedView
<1>11. Sees(Tree!MovedTo(ByPath, PathOf(k), NewPath(p, n)), u)
  BY <1>4, <1>5, <1>6, <1>10, MovedByCopyView
<1> QED
  BY <1>1, <1>6, <1>7, <1>9, <1>11, FreedSeen

\* datMove
LEMMA MoveSeen ==
    ASSUME Careful, TreesInv, TreesInv', Upright(obj),
           NEW k, NEW p, NEW n \in Name, DatMove(k, p, n)
    PROVE  /\ Upright(obj') /\ ByPath' \in Tree!After(ByPath)
           /\ locs' # locs => ByPath' = Tree!MovedTo(ByPath, PathOf(k), NewPath(p, n))
           /\ locs' = locs => ByPath' = Tree!CopiedTo(ByPath, PathOf(k), NewPath(p, n))
<1>1. /\ Movable(k) /\ Valid(p) /\ MayUse(p) /\ Vacant(p, n) /\ Outside(k, p)
      /\ Valid(k) /\ MayUse(k) /\ k \in DOMAIN locs /\ locs[k].obj \notin Root
  BY DEF DatMove, Movable, Valid
<1>2. NewPath(p, n) \in Tree!Outside(ByPath, PathOf(k))
  BY <1>1, PlacesOk
<1>3. PathOf(k) \in Tree!Components(ByPath)
  <2>1. LinkedIn(obj, locs[k].obj) /\ Objects(obj)
    BY <1>1, UsedLinked DEF TreesInv
  <2> QED
    BY <1>1, <2>1, SeenNow, ComponentOk DEF PathOf
<1>4. CASE /\ locs' = Restrict(locs, DOMAIN locs \ {k})
           /\ MoveLink(k, p, n) \/ MoveCopy(k, p, n)
  <2>1. Upright(obj') /\ ByPath' = Tree!MovedTo(ByPath, PathOf(k), NewPath(p, n))
    BY <1>1, <1>4, MoveLinkSeen, MoveCopySeen
  <2>2. Tree!MovedTo(ByPath, PathOf(k), NewPath(p, n)) \in Tree!After(ByPath)
    BY <1>2, <1>3, AfterOk
  <2>3. locs' # locs
    BY <1>1, <1>4 DEF Restrict
  <2> QED
    BY <2>1, <2>2, <2>3
<1>5. CASE MoveHalf(k, p, n)
  <2>1. /\ RoomFor(Cardinality(Below(obj, locs[k].obj)))
        /\ obj' = Copied(obj, locs[k].obj, locs[p].obj, n) /\ locs' = locs
    BY <1>5 DEF MoveHalf
  <2> QED
    BY <1>1, <2>1, CopySeen
<1> QED
  BY <1>4, <1>5 DEF DatMove

\* All but the last element of a path.
LEMMA FrontOk ==
    ASSUME NEW q \in Seq(Nat), NEW n \in Nat, NEW a, Longer(a, q, n)
    PROVE  Front(a) = q
<1>1. /\ a \in Seq(Nat) /\ Len(a) = Len(q) + 1 /\ Len(q) \in Nat
      /\ \A i \in 1..Len(q) : a[i] = q[i]
  BY AppendedOk
<1>2. Front(a) = [i \in 1..Len(q) |-> a[i]]
  BY <1>1 DEF Front
<1>3. q = [i \in 1..Len(q) |-> q[i]]
  OBVIOUS
<1> QED
  BY <1>1, <1>2, <1>3

\* datRenam
LEMMA RenamSeen ==
    ASSUME Careful, TreesInv, TreesInv', Upright(obj), NEW k, NEW n \in Name, DatRenam(k, n)
    PROVE  /\ Upright(obj') /\ ByPath' \in Tree!After(ByPath)
           /\ ByPath' = Tree!MovedTo(ByPath, PathOf(k), Append(Front(PathOf(k)), n))
<1> DEFINE o == locs[k].obj
           q == obj[o].up
<1>1. /\ Valid(k) /\ MayUse(k) /\ o \notin Root /\ Child(obj, q, n) = {}
      /\ obj' = [obj EXCEPT ![o].name = n]
  BY DEF Movable, DatRenam
<1>2. Objects(obj) /\ Objects(obj') /\ Sees(ByPath, obj)
  BY SeenNow DEF TreesInv
<1>3. LinkedIn(obj, o)
  BY <1>1, UsedLinked
<1>4. /\ o \in DOMAIN obj /\ HasUp(obj, o) /\ LinkedIn(obj, q)
      /\ Path(obj, o) \in Tree!Components(ByPath)
  BY <1>1, <1>2, <1>3, ComponentOk
<1>5. Named(obj) /\ Ranked(obj) /\ n \in Nat
  BY <1>2, ObjectsNamed, ConstantsOk DEF Named
<1>6. q \in DOMAIN obj /\ q \notin Below(obj, o)
  BY <1>4, <1>5, NotBelowUp DEF HasUp
<1>7. obj[q].isStruct
  BY <1>3, <1>4 DEF Upright, Hier
<1>8. /\ DOMAIN obj' = DOMAIN obj /\ \A y \in DOMAIN obj \ {o} : obj'[y] = obj[y]
      /\ obj'[o] = [obj[o] EXCEPT !.name = n]
  BY <1>1, <1>2, <1>4 DEF Objects
<1>9. obj'[o].up = q /\ obj'[o].name = n /\ obj'[o].isStruct = obj[o].isStruct
  <2>1. obj[o] \in ObjectRecord
    BY <1>2, <1>4 DEF Objects
  <2> QED
    BY <1>8, <2>1 DEF ObjectRecord
<1>10. MovedInto(obj', obj, o, q, n) /\ SortsKept(DOMAIN obj, obj, obj')
  BY <1>8, <1>9 DEF MovedInto, SortsKept
<1>11. obj' \in [DOMAIN obj -> ObjectRecord]
  BY <1>2, <1>8 DEF Objects
<1>12. SameLinks(obj', obj)
  BY <1>1, <1>2, <1>3, <1>4, <1>6, <1>10, <1>11, PlacedOk
<1> DEFINE new == Append(Path(obj, q), n)
<1>13. Front(Path(obj, o)) = Path(obj, q)
  BY <1>4, <1>5, UpOk, FrontOk
<1>14. PathOf(k) = Path(obj, o) /\ Append(Front(PathOf(k)), n) = new
  BY <1>13 DEF PathOf
<1> HIDE DEF o, q
<1>15. new \in Tree!Outside(ByPath, Path(obj, o))
  BY <1>1, <1>2, <1>3, <1>4, <1>6, <1>7, OutsideOk
<1>16. Upright(obj')
  BY <1>6, <1>7, <1>10, <1>12, MovedUpright
<1>17. Sees(Tree!MovedTo(ByPath, Path(obj, o), new), obj')
  BY <1>2, <1>3, <1>4, <1>5, <1>6, <1>10, <1>12, MovedView
<1> HIDE DEF new
<1>18. ByPath' = Tree!MovedTo(ByPath, Path(obj, o), new)
  BY <1>2, <1>17, SeenNext
<1> QED
  BY <1>4, <1>14, <1>15, <1>16, <1>18, AfterOk

\* At first the top-level objects are seen.
LEMMA InitSeen ==
    ASSUME HierarchyInit
    PROVE  Upright(obj) /\ Tree!Init
<1>1. obj = [r \in Root |-> [up |-> None, name |-> None, isStruct |-> TRUE]]
  BY DEF HierarchyInit
<1>2. Objects(obj)
  BY InitKeeps DEF TreesInv
<1>3. Named(obj) /\ TreeOk(obj, MaxObject) /\ MaxObject \in Nat
  BY <1>2, ObjectsNamed, ConstantsOk DEF Objects
<1>4. \A r \in Root : r \in DOMAIN obj /\ ~HasUp(obj, r) /\ LinkedIn(obj, r)
  BY <1>3, RootsOnTop
<1>5. Hier(obj) = Root
  BY <1>1, <1>4 DEF Hier
<1>6. Upright(obj)
  BY <1>4, <1>5 DEF Upright
<1>7. \A r \in Root : Path(obj, r) = <<r>>
  <2> SUFFICES ASSUME NEW r \in Root PROVE Path(obj, r) = <<r>>
    OBVIOUS
  <2>1. Alone(Path(obj, r), r)
    BY <1>3, <1>4, PathDef
  <2> QED
    BY <2>1 DEF Alone
<1> DEFINE f == [p \in {<<r>> : r \in Root} |-> TRUE]
<1>8. f = [p \in DOMAIN f |-> f[p]] /\ DOMAIN f = {<<r>> : r \in Root} /\ \A r \in Root : f[<<r>>] = TRUE
  OBVIOUS
<1> HIDE DEF f
<1>9. SeesOf(f, obj, Root)
  <2>1. DOMAIN f = {Path(obj, r) : r \in Root}
    BY <1>7, <1>8
  <2>2. \A r \in Root : f[Path(obj, r)] = obj[r].isStruct
    BY <1>1, <1>7, <1>8
  <2> QED
    BY <1>8, <2>1, <2>2 DEF SeesOf
<1>10. SeesOf(ByPath, obj, Root)
  BY <1>2, <1>5, SeenNow DEF Sees
<1>11. ByPath = f
  BY <1>9, <1>10, SeesOne
<1> QED
  BY <1>6, <1>11 DEF Tree!Init, f

\* What the calls do to the objects as they are seen.
LEMMA NextSeen ==
    ASSUME Careful, TreesInv, Upright(obj), [HierarchyNext]_hierarchyVars
    PROVE  Upright(obj') /\ [Tree!Next]_ByPath
<1>1. TreesInv'
  BY NextKeeps
<1>2. ASSUME UNCHANGED obj PROVE Upright(obj') /\ ByPath' = ByPath
  BY <1>2 DEF ByPath, Linked
<1>3. Upright(obj') /\ (ByPath' = ByPath \/ ByPath' \in Tree!After(ByPath))
  <2>1. CASE \E k \in 1..MaxLoc, n \in Name : DatFind(k, n) \/ DatIndex(k, n)
    BY <1>2, <2>1 DEF DatFind, DatIndex
  <2>2. CASE \E k \in 1..MaxLoc : DatClone(k) \/ DatParen(k)
    BY <1>2, <2>2 DEF DatClone, DatParen
  <2>3. CASE \E k \in 1..MaxLoc : DatAnnul(k)
    BY <1>1, <2>3, AnnulSeen
  <2>4. CASE \E k \in 1..MaxLoc, n \in Name : \E s \in BOOLEAN : DatNew(k, n, s)
    BY <1>1, <2>4, NewSeen
  <2>5. CASE \E k \in 1..MaxLoc, n \in Name : DatErase(k, n)
    BY <1>1, <2>5, EraseSeen
  <2>6. CASE \E k \in 1..MaxLoc, n \in Name : DatRenam(k, n)
    BY <1>1, <2>6, RenamSeen
  <2>7. CASE \E k, p \in 1..MaxLoc, n \in Name : DatCopy(k, p, n)
    <3>1. PICK k \in 1..MaxLoc, p \in 1..MaxLoc, n \in Name : DatCopy(k, p, n)
      BY <2>7
    <3>2. /\ Valid(k) /\ MayUse(k) /\ Valid(p) /\ MayUse(p) /\ Vacant(p, n) /\ Outside(k, p)
          /\ RoomFor(Cardinality(Below(obj, locs[k].obj)))
          /\ obj' = Copied(obj, locs[k].obj, locs[p].obj, n)
      BY <3>1 DEF DatCopy
    <3> QED
      BY <1>1, <3>2, CopySeen
  <2>8. CASE \E k, p \in 1..MaxLoc, n \in Name : DatCcopy(k, p, n)
    BY <1>1, <2>8, CcopySeen
  <2>9. CASE \E k, p \in 1..MaxLoc, n \in Name : DatMove(k, p, n)
    BY <1>1, <2>9, MoveSeen
  <2>10. CASE UNCHANGED hierarchyVars
    BY <1>2, <2>10 DEF hierarchyVars
  <2> QED
    BY <2>1, <2>2, <2>3, <2>4, <2>5, <2>6, <2>7, <2>8, <2>9, <2>10 DEF HierarchyNext
<1> QED
  BY <1>3 DEF Tree!Next

\* A step of a careful program that moves, renames or copies.
MovedOrCopied ==
    /\ \A k \in DOMAIN locs \ DOMAIN locs', p \in DOMAIN locs, n \in Name :
          DatMove(k, p, n) => ByPath' = Tree!MovedTo(ByPath, PathOf(k), NewPath(p, n))
    /\ \A k \in renamed' \ renamed, n \in Name :
          DatRenam(k, n) =>
              ByPath' = Tree!MovedTo(ByPath, PathOf(k), Append(Front(PathOf(k)), n))
    /\ UNCHANGED <<locs, handle>> =>
          \A k, p \in DOMAIN locs, n \in Name :
             DatCopy(k, p, n) \/ DatMove(k, p, n) => ByPath' = Tree!CopiedTo(ByPath, PathOf(k), NewPath(p, n))

LEMMA NextMoves ==
    ASSUME Careful, TreesInv, Upright(obj), [HierarchyNext]_hierarchyVars
    PROVE  MovedOrCopied
<1>1. TreesInv'
  BY NextKeeps
<1>2. ASSUME NEW k \in DOMAIN locs \ DOMAIN locs', NEW p \in DOMAIN locs, NEW n \in Name,
             DatMove(k, p, n)
      PROVE  ByPath' = Tree!MovedTo(ByPath, PathOf(k), NewPath(p, n))
  <2>1. locs' # locs
    BY <1>2
  <2> QED
    BY <1>1, <1>2, <2>1, MoveSeen
<1>3. ASSUME NEW k \in renamed' \ renamed, NEW n \in Name, DatRenam(k, n)
      PROVE  ByPath' = Tree!MovedTo(ByPath, PathOf(k), Append(Front(PathOf(k)), n))
  BY <1>1, <1>3, RenamSeen
<1>4. ASSUME UNCHANGED <<locs, handle>>, NEW k \in DOMAIN locs, NEW p \in DOMAIN locs,
             NEW n \in Name, DatCopy(k, p, n) \/ DatMove(k, p, n)
      PROVE  ByPath' = Tree!CopiedTo(ByPath, PathOf(k), NewPath(p, n))
  <2>1. CASE DatCopy(k, p, n)
    <3>1. /\ Valid(k) /\ MayUse(k) /\ Valid(p) /\ MayUse(p) /\ Vacant(p, n) /\ Outside(k, p)
          /\ RoomFor(Cardinality(Below(obj, locs[k].obj)))
          /\ obj' = Copied(obj, locs[k].obj, locs[p].obj, n)
      BY <2>1 DEF DatCopy
    <3> QED
      BY <1>1, <3>1, CopySeen
  <2>2. CASE DatMove(k, p, n)
    BY <1>1, <1>4, <2>2, MoveSeen
  <2> QED
    BY <1>4, <2>1, <2>2
<1> QED
  BY <1>2, <1>3, <1>4 DEF MovedOrCopied

\* The invariant, with what it takes for the objects to be seen as a tree.
LEMMA HierarchyInvariant ==
    ASSUME Careful
    PROVE  HierarchySpec => [](TreesInv /\ Upright(obj))
<1> DEFINE I == TreesInv /\ Upright(obj)
<1>1. HierarchyInit => I
  BY InitKeeps, InitSeen
<1>2. I /\ [HierarchyNext]_hierarchyVars => I'
  BY NextKeeps, NextSeen
<1> QED
  BY <1>1, <1>2, PTL DEF HierarchySpec

\* What is seen of the objects, by their paths, is a tree that is changed one
\* subtree at a time: no call of a careful program makes, loses or moves
\* anything but the one component it is about.
THEOREM ObjectsFormTree ==
    ASSUME Careful
    PROVE  HierarchySpec => ImplementsObjectTree
<1>1. HierarchyInit => Tree!Init
  BY InitSeen
<1>2. TreesInv /\ Upright(obj) /\ [HierarchyNext]_hierarchyVars => [Tree!Next]_ByPath
  BY NextSeen
<1>3. HierarchySpec => [](TreesInv /\ Upright(obj))
  BY HierarchyInvariant
<1> QED
  BY <1>1, <1>2, <1>3, PTL DEF HierarchySpec, ImplementsObjectTree, Tree!Spec

\* What datMove and datRenam move is found at the new path with all that is in
\* it and nothing is left at the old one, with H5Lmove as well as with a copy
\* that is then erased; datCopy, and a datMove that stops half way, add a copy.
THEOREM MovesAreWhole ==
    ASSUME Careful
    PROVE  HierarchySpec => MovesAndCopies
<1>1. TreesInv /\ Upright(obj) /\ [HierarchyNext]_hierarchyVars => [MovedOrCopied]_hierarchyVars
  BY NextMoves
<1>2. HierarchySpec => [](TreesInv /\ Upright(obj))
  BY HierarchyInvariant
<1>3. HierarchySpec => [][MovedOrCopied]_hierarchyVars
  BY <1>1, <1>2, PTL DEF HierarchySpec
<1> QED
  BY <1>3 DEF MovesAndCopies, MovedOrCopied
=============================================================================
