# A TLA+ model of HDS version 5

HDS (the Hierarchical Data System, version 5) is a C library that stores trees
of named objects in HDF5 files.  A program works on an object through a
*locator*; several locators, in several threads, may refer to one object.  The
library adds to HDF5 what this project is about: bookkeeping of locators and
open files, locks that let threads share objects, groups of locators, memory
mapping of primitives, slices.  Everything below refers to `src/`.

Contents: 1 the system; 2 the modules and the code they stand for; 3 the runs;
4 the proofs; 5 what the checks say about the code; 6 what is not modelled;
7 the plan.

## 1. The system

| Component | Source | State | Operations |
|---|---|---|---|
| Handle locks | `dat1HandleLock.c`, `datLock.c`, `datUnlock.c`, `datLocked.c`, `datNolock.c`, `dat1ValidateLocator.c` | per Handle: one writer, an array of readers, `docheck`, a mutex | lock, unlock, query, each optionally recursive; the check made before an object is used |
| Handle tree | `dat1Handle.c`, `dat1EraseHandle.c`, `dat1FreeHandle.c`, `dat1TopHandle.c` | per Handle: parent, children array, name, `check` | make the Handle of a component, erase a tree |
| Locator registry | `hdstrack2.c`, `dat1Annul.c`, `datAnnul.c`, `datClone.c`, `datPrmry.c`, `datRefct.c` | hash table `hdsFiles`; per open file a list of primary and one of secondary locators | register, unregister, promote, demote, annul, count |
| Container files | `hdsOpen.c`, `hdsNew.c`, `hdsErase.c`, `hdsClose.c`, `dat1Reopen.c`, `dat1CloseAllIds.c`, `hdsIsOpen.c`, `datTemp.c` | HDF5 file ids, the erase flag of a Handle | open, create, reopen for update, close, erase |
| Locator groups | `hdsgroups.c`, `hdsGroup.c` | hash table of groups under `mutex1` | link, flush, remove a locator |
| Mapping | `datMap.c`, `datUnmap.c`, `datMapV.c`, `datGet.c`, `datPut.c` | the mapping fields of a locator | map, unmap with write-back |
| Values | `datPut.c`, `datGet.c`, the typed `datPut0.c` ... `datGetVC.c`, `dat1CvtChar.c`, `dat1CvtLogical.c` | HDF5 datasets | write and read with conversion of types |
| Object operations | `datNew.c`, `datErase.c`, `datCopy.c`, `datMove.c`, `datRenam.c`, `datAlter.c`, `datReset.c`, `datCell.c`, ... | HDF5 groups, datasets, attributes | hierarchy changes |
| Slices and vectors | `datSlice.c`, `datVec.c`, `dat1GetBounds.c`, `dat1Index2Coords.c`, `dat1ImportDims.c`, ... | dataspace selection and flags of a locator | pure computations on dimensions |
| Tuning | `hdstuning.c` | static variables | read the environment once, get and set |
| Names and traces | `dau1CheckName.c`, `dau1CheckFileName.c`, `datName.c`, `hdsTrace.c`, `datRef.c`, `dat1FixNameCell.c`, ... | the paths of HDF5 and two attributes of the root group | check a name, tell the name, path and reference of an object |
| Fortran interface | `fortran_interface.c`, `datImportFloc.c`, `datExportFloc.c` | CHARACTER variables with the addresses of locators, an inherited status | a wrapper for each call |

Attributes, error messages and listings, the calls that do nothing and the tests
are listed in `PROJECT.json` with the reason why they are left out.

### How they interact

* A **locator** (`struct LOC` of `dat1.h`) holds HDF5 ids, a pointer to the
  **Handle** of its object, a pointer to the `HdsFile` it is registered with,
  the name of the group it is in, and the fields of a mapping.  Almost every
  public function first calls `dat1ValidateLocator`, which compares the
  Handle's `check` field with its address and asks `dat1HandleLock` whether the
  calling thread has the lock it needs.
* **Opening** a file (`hdsOpen`) registers a primary locator, looks in the
  registry for a locator of the same file whose Handle tree can be shared, and
  locks the top-level Handle.
* **Annulling** (`datAnnul` → `dat1Annul`) takes the locator out of its list.
  When it was the last primary one, the secondary locators are popped and
  annulled too, the HDF5 ids are closed, the file is removed from the hash
  table, its Handles are freed, and the file is deleted if the erase flag is
  set.  `dat1Anloc`, called for each, unmaps the locator and takes it out of
  its group.
* **Flushing** a group (`hdsFlush`) calls `datAnnul` for each of its locators
  while it holds the mutex of the groups.
* **Fortran** wrappers import the locators they are given from strings, call one
  C routine, and export the locator that it returns.
* **Moving and renaming** change HDF5's tree and leave the tree of Handles to
  follow, or not.

### What is hard

* *Threads.*  The lock fields of a Handle are protected by its own mutex, but a
  recursive call takes the mutex of the top Handle only.  The lists of the
  registry are protected by one mutex that is taken and released inside single
  functions, so that a call of `dat1Annul` is many critical sections.
* *Calls that call back*: `hdsFlush` → `datAnnul` → `dat1Annul` → the registry
  and, through the cascade, the groups again.
* *Partial failure*: a recursive lock refused half way, an `hdsOpen` refused
  after the Handle was shared, a copy-back that fails in `datUnmap`, a reopen
  that finds a mapped locator, a `datMove` whose erase fails, a `datAlter` that
  fails after it has deleted cells or the old dataset, a creation that fails and
  unlinks a file, a wrapper that fails after it has given its locator away.
* *Staleness*: lock answers used after the mutex is released; Handles of
  objects that were moved; buffers of objects that another thread writes;
  pointers in groups and lists to locators that were annulled.
* *Arithmetic* on bounds that count from 0 or 1, in two orders of axes; values
  that go through chains of conversions, in buffers of their own.

There is no persistence protocol, no message passing and no retry: HDF5 owns the
bytes on disk, and a crash of the process is not handled by this code.

### What makes each component correct

* **Locks**: at most one writer and then no readers; a thread loses a lock only
  by its own call; what a call reports stays true; no mutex is kept.
* **Handle tree**: links agree in both directions; one Handle for each object.
* **Registry and files**: each registered locator is in one list, once; no
  locator points into a closed file or freed Handles; a file is open exactly
  while it has a primary locator; a request to erase it is honoured.
* **Groups**: arrays and names agree; a flush annuls all; every call returns.
* **Mapping**: a READ buffer is current while the lock is kept; a WRITE or
  UPDATE buffer is stored; only the lock's holder changes the array.
* **Objects**: each call changes one subtree; a locator is valid exactly while
  its object is in the hierarchy.
  An array that is made longer or shorter keeps what it held.
* **Slices**: a chain of slices, vectors and cells refers to the elements that
  were asked for, in the right order.
* **Values**: what fits is read back as it was written; what does not is
  reported, and then nothing is stored; no buffer is too small.
* **Tuning**: a value that was set is the value until another is set.
* **Names**: what an object is said to be called is what it was asked for, and a
  file is found again by its reference.
* **Fortran**: each locator in memory is in one variable, and each variable
  names a locator in memory or none, through good and bad status.

`PROJECT.json` lists under `hazards` the places in the code where these could
go wrong, each at its line, with the properties aimed at it.

## 2. The modules

```
RWLock          <- HandleLock      <- HandleLockProofs, MCHandleLock   <- MCCalls
                <- HandleLockSteps <- HandleLockStepsProofs,
                                      MCHandleLockSteps                <- MCSteps
ContainerFile   <- Registry        <- MCRegistry <- RegistryProofs
                <- Closing         <- ClosingProofs, MCClosing         <- MCSteps
StoredArray     <- Mapping         <- ObjectsProofs, MCObjects
ObjectTree      <- Hierarchy       <- ObjectsProofs
                                   <- MCHierarchy                      <- MCObjects
Threads         <- HandleLockSteps, Closing
Grids           <- Shapes          <- GridProofs, MCShapes             <- MCCalls
                <- Alter           <- GridProofs, MCAlter              <- MCCalls
                <- Values
Names           <- CallsProofs, MCNames                                <- MCCalls
Fortran, Values, Tuning, Opening   <- CallsProofs, MCCalls
Lists           <- Registry, Closing, Opening, HandleLockSteps
ListsProofs     <- RegistryProofs, ClosingProofs, HandleLockProofs, CallsProofs,
                   HandleLockStepsProofs, ObjectsProofs, GridProofs
Children
```

An arrow from left to right reads "is the abstract specification of, or is
extended by".  `Lists` has the one operation on lists that several components
need: a locator, or a thread, leaves a list, wherever it is in it (`Without`; in
the code the pointers of a linked list, or the entries of an array that move
up).  But for this, the abstract modules and the declaration of the threads, no
module is shared: where two components meet
(locks and mapping, annulling and groups, Handles and files, opening and the
registry) the module of the one has the part of the other that it depends on,
taken from the same code.  `MCObjects`, `MCCalls` and `MCSteps` set modules that
share no state side by side in one run: the variable `part` says which of them
moves, so a behaviour is one of a single module.

**`RWLock`**, **`StoredArray`**, **`ContainerFile`** and **`ObjectTree`** are
abstract: what the locks, a primitive, a container file and the hierarchy
promise to a program, without Handles, lists, buffers or HDF5 ids.  The other
modules are shown to implement them (`ImplementsRWLock`, `CallsAreAtomic`,
`ImplementsStoredArray`, `ImplementsContainerFile`, `ImplementsObjectTree`).

### `HandleLock` — the Handles and their locks, one call a step

| In the module | In the code |
|---|---|
| `writer[h]` | `nwrite_lock`, `write_locker` |
| `readers[h]` | the first `nread_lock` entries of `read_lockers` |
| `kids[h]`, `parent[h]`, `name[h]` | `children` (with its NULL slots), `parent`, `name` |
| `live` | Handles whose `check` points at themselves |
| `docheck[h]`, `LockCheck` | `docheck`, the tuning parameter LOCKCHECK |
| `stale` | files whose Handles were erased while locators point at them |
| `Children`, `Below` | the components of a Handle, and the Handle with all below it |
| `Visit`, `BeforeRefusal` | the order in which a recursive `dat1HandleLock` walks, and where it stops |
| `Status`, `TreeStatus` | `dat1HandleLock` with `oper` 1, plain and recursive |
| `DatLock`, `DatUnlock`, `DatNolock` | the functions of that name (`oper` 2 and 3) |
| `DatFind`, `DatNew`, `DatErase` | what these do to Handles and locks (`dat1Handle`, `dat1EraseHandle`) |
| `OpenFirst`, `OpenAgain`, `OpenRefused`, `LastAnnul` | the Handle and lock side of `hdsOpen` and of the last annul |

### `HandleLockSteps` — the same calls step by step

A call of a thread is `Enter` (wait for the mutex of the Handle given), then for
each Handle of the walk `Test` (read the fields, decide) and `Set` (change
them), then `Leave` (release the mutex, return).  Splitting each visit in
`Test` and `Set` is what the code's unprotected reads and writes allow at the
least.  What is left of the walk is in `walk`: it begins as the Handle given, and the
components of a Handle come before its later siblings when it is left
(`AndBelow`), as the recursion of `dat1HandleLock` goes down.  `told` is history:
what the calls have reported to each thread, as far as the thread can know.  The tree of Handles is fixed here (`Kids`).

### `Children` — the children array of one Handle

Threads with a lock on an object look for its components (`FindBegin`, one `Look`
for each turn of the loop of `dat1Handle`) and add Handles for those they do not
find (`Make`, `Count`, `Store`, `Fill`), all without a mutex; `EraseChild` is
`dat1EraseHandle`, for which a thread needs the read-write lock.  `Garbage` is
memory that was not written to.

### `Registry` — locators and files, one call a step

`prim` and `sec` are the linked lists of an `HdsFile`, `file`, `isprim` and
`at` the fields `hdsFile`, `isprimary` and `handle` of a locator, `known` the
keys of the hash table, `open` the files HDF5 has open, `trees` the Handle trees
in memory, `flagged` the Handles with `erase` set.  A Handle is a tree and a
kind of place in it: the root group, the object `hdsNew` made, or something
below one of them.  Actions: `HdsNew`, `HdsOpen`, `DatClone` (also slices and
vectors), `DatFind` (also cells and `datIndex`), `DatParen`, `DatAnnul` (also
`hdsClose`), `HdsErase`, and for `datPrmry` `Promote`, `Demote`, `DemoteOnly`
and `DatPrmryAnnulled`.  `Annul` includes the cascade.

`Demotable` names the files whose *last* primary locator a caller may demote.
The code then leaves the file open with no primary locator (section 5), so the
properties that say otherwise are about the other files, `Kept`.

### `Closing` — annulling step by step, with groups

Each of `datAnnul`'s critical sections is a step: `Unregister`, `Pop` a secondary
locator, `TestGroup`, `LeaveGroup` (needs `mutex1`), `Clear`, `CloseFile`,
`FreeLoc`; `hdsFlush` is `HdsFlush`, `NextElement` and the steps of `datAnnul`
for each element, then `FlushEnd`; `DatFind` links the new locator to its
parent's group in a step of its own (`LinkFound`).  `run[t]` is where thread t
is.  A program must not annul a locator that another thread is using, nor use
a file that another is closing: `NoConflict` says that, through the footprint of
every call.  `Opening` is about the calls before the file is closed.
Two values of `FlushCloses`: FALSE keeps a program from flushing a group whose
last primary locator has a grouped secondary locator behind it.

### `Mapping` — one primitive in memory

The state is the primitive's HDF5 datasets (`datReset` replaces the dataset),
the locators to it with their mapping fields (`mode`: `accmode`; `buf`: what
`regpntr` points at; `mmapped`: `pntr` is set; `trueMmap`: `uses_true_mmap`;
`scalar`: `ndims` is 0), the lock on its Handle, and how the file is open.
Actions: lock, unlock, `Find`, `Clone`, `Slice`, `Put`, `Reset`, `Map`,
`Modify` (the program stores into the buffer), `Unmap`, `Annul`, `Reopen`.
`since[l]` is history: the thread that mapped l, until something happens that
may put the mapping out of date.  The properties are about mappings with a
`since`; `SinceJustified` is why they hold.

### `Hierarchy` — HDF5's tree and the tree of Handles

`obj` is HDF5's tree, `handle` that of the live Handles, `locs` the locators
with a pointer into each, and `renamed` the locators given to `datRenam`.  The
actions are `DatFind`, `DatIndex`, `DatClone`, `DatParen`, `DatAnnul`, `DatNew`,
`DatErase`, `DatCopy`, `DatCcopy`, `DatMove` (a link move within one `file_id`, a
copy and an erase between two, or the copy alone if the erase fails) and
`DatRenam`.  `InUse` is HDF5's rule that an
object outlives its name while an id is open.  `Extended`, a function with one more
value, and `Joined` of `ObjectTree` are used where TLC's `:>` and `@@` would do, as the
provers do not know these.

With `Careful` TRUE a program moves or renames an object only through the one
locator it has for that object and everything in it, and after `datRenam` only
annuls that locator.  Without that rule the trees part (run `moved_handle`).
Moving a structure into itself is left out: HDF5 makes it inaccessible.

### `Shapes` — slices, vectors and cells

`sloc` is a locator: an HDF5 dataspace (extent and at most one box) and the flags
`vectorized`, `iscell`, `isdiscont`.  `DatSlice`, `DatVec` and `DatCell` derive
the next locator with the conversions the code uses (`Transposed` for
`dat1ImportDims` and `dat1ExportDims`, `Bounds` for `dat1GetBounds`,
`Index2Coords`).  `want` is history computed independently, from what the
program asked for; `SelectedElements` is what HDF5 then reads.  `exact`
becomes FALSE when `datVec` was let to vectorise a selection that is not
contiguous; the properties stop there and `DiscontFlagged` is about that.

Two things the model brings out and follows: the element of a one-axis array that
`datCell` gave stays a scalar after `datVec`, which only clones it; and `datCell`
of a scalar structure that was vectorised clones it too.

### `Opening` — hdsOpen and hdsNew step by step

A call on the registry or on HDF5 is one step, and nothing holds the steps of
`hdsOpen` (`OpenBegin` ... `OpenStore`) or `hdsNew` (`NewBegin` ... `NewReturn`)
together.  `disk` is the file that the path names, `inHdf5` what HDF5 has open,
`entry` the `HdsFile` in the hash table and `primaries` its list, `tree[l]` the
tree of the Handle of a locator, `refers[l]` the file of its ids, `built` the
allocated trees.  `H5Fcreate` fails if another thread has the file open
(`NewUnlink`: the code deletes what the path names), `dat1New` may fail
(`NewObject`).  The program does not annul the last locator of the file while
another thread opens or creates it (`OpeningAnnul`).  `OTree` bounds the trees: a
call makes one only where one is free, and takes the first of these.  Of the things seen
here the model tells apart which tree a locator is in, not which Handle.

### `Alter` — datAlter and the cells of structure arrays

One array that is altered, written to and found again.  Of a primitive, the
values in the order of storage, whether something is linked under its name
(`there`) and what under the temporary one (`leftover`); of a structure array, its
cells.  `Extend` and `Shrink` make and delete cells one after the other and stop
where the code does (`CellsUntil`).  `NotMade`, `NotCopied`, `NotErased` and
`NotRenamed` are the failures of HDF5 in the primitive's path that are reported; they
leave the locator unusable (`usable`).  One is not reported: if `datUnmap` cannot write
the values into the new dataset it annuls the error (`datUnmap.c:144-145`), and `datAlter`
goes on to erase the old dataset.  Then the new one has what was written of them, perhaps
nothing (`Torn`), whatever the call answers; `unwritten` is history and tells that the
last call did that.  `Accepted` has the code's loop over the dimensions.

### `Values` — typed access with conversion

One object, what was last written into it (`vput`, history), what was last read
(`vgot`), the status, and the buffer that the last call ran over, if any
(`voverrun`).  `H5Type`, `HdsType` and `Native2MemType` are the three tables
of types; `FromText`, `TextOf`, `FromLogical` and `ToLogical` the conversions of
`dat1CvtChar` and `dat1CvtLogical`, `H5Converted` what HDF5 does by itself.
`Overrun` tells which buffer a call runs over: "temporary" is that of `datPut` and `datGet`
when `datPut` makes texts, "given" what the program gave to `datGet`, "own" what
`datGet1C` allocates.  What memory holds after that is undefined; the model goes on as if
nothing had been harmed.
A value that the code leaves uninitialised is any of `Junk`.  The actions are the
families of typed routines: a name that ends in `_` stands for those of all
numeric types and `_LOGICAL`.  `Span` tells how many numbers each type has; when
model-checked these are few, and so are the texts and numbers of each sort.

### `Tuning` — the tuning parameters

`param` is one of MAP, LOCKCHECK and SHELL, `tuned` its static variable,
`initialized` the flag `HAVE_INITIALIZED_V5_TUNING`.  `HdsTune` sets the value;
a thread that asks for one looks at the flag (`GetBegin`) and, if it is not set,
reads the environment, stores the value and sets the flag in three steps
(`hds1ReadTuneEnvironment`).  Two variables are history: `begun`, the threads that at
the last `hdsTune` could still store what the environment gives (all of them, if the flag
was not set then), and `stored`, those that have done so since.  `Accept` has the ranges
of the setters: a number of shells is kept up to HDS__MAXSHELL, which is 1
(`dat1.h:110-114`).

### `Names` — names, paths and references

One locator with which a program opens a file, finds components and cells, takes
slices and goes back to parents (`place`: the file, HDF5's links, the bounds), and
the HDS path that it went along (`hdspath`, history).  `HdsTrace`, `DatName` and
`DatRef` are made from `place` as the code makes them from HDF5's name of the
object, with `FixNameCell`, `EncodeSubscript` and `NeedsRootName`; `CheckName` and
`CheckFileName` are what becomes of the names that a program gives.  Texts are
sequences of characters, as the properties are about them; `Numeral` is how the
numbers in subscripts are written.  `NamesAssumption` keeps the marks of a path (`/`,
`.`, `(` and DAT__CELLNAME) out of names.  The code does not test that (section 5).

### `Fortran` — the wrappers

`fvar[v]` is what a CHARACTER variable of the program holds, `fstat` the
inherited status, `flive` the C locators in memory, `flinked` those in a group.
`Import` and `Export` are `datImportFloc` and `datExportFloc`; `Uses`, `Returns`,
`MakesFrom`, `HandsBack` the kinds of wrappers there are, and each wrapper of
`fortran_interface.c`, or family of them for the types of a value, is an action
of its own that says of which kind it is.  What the C routine does is left to the other
modules: here it succeeds, or fails.  `Recovers` (the program sets the status
to good) and `Assigns` (it overwrites a variable) are the program's.
`flost`, `fdropped` and `fstale` are history: the locators that a failing
wrapper, the program and `hdsFlush` have let go of.  A program must not use
variables that it flushed, and must not give DAT__NOLOC to the few routines that
look into a NULL locator (`NotNull`).

## 3. The runs

`tlc -config X.cfg MCName` in this directory.  States are distinct states; the
times are for two workers.  Each property is accompanied by a mutant in
`PROJECT.json`, a change of one definition that a plausible slip in the code
would make, under which TLC finds that property violated.

| Run | Instance | What it shows |
|---|---|---|
| `calls` | 364,612 states in eight parts: `HandleLock` (2 threads, 3 Handles, 1 file, 2 names), `Shapes` (7 shapes of up to 3 axes, bounds up to 4), `Fortran` (3 variables, 2 locators), `Values` (3 numeric types, texts of 1 and 2 characters), `Opening` (2 threads, 4 locators, 3 trees, 2 creations), `Alter` (14 shapes), `Tuning` (2 threads, 5 values), `Names` (4 kinds of top-level object, 5 components, paths of 3 names, 13 file names) | See "The parts of `calls`" below. |
| `steps` | 1,100,293 states in two parts: 2 threads, an object and its component (`HandleLockSteps`); 2 threads, 3 locators, 2 groups, 2 files (`Closing`) | For the object every call acts as if it were one step, what a thread was told stays true until its next call, and some call always returns: no mutex is kept, and threads do not wait in a circle. No pointer to an annulled locator stays in a group, a flush annuls all, closing is one step for the users of the file, every call returns. |
| `registry` | 4 locators, 2 files, 2 trees, 338,380 states | The lists agree, nothing dangles, a file is open exactly while it has a primary locator, one tree for each file, erase requests are honoured; `ContainerFile` is implemented. |
| `objects` | 775,020 states in two parts: a file opened twice, 5 objects, 4 Handles, 4 locators, 2 names (`Hierarchy`); 2 threads, 2 locators, 2 elements, values 0 and 1, one `datReset` (`Mapping`) | Locators are valid exactly while their object is linked, one Handle for each object, moves and copies do what they say also when they fail; READ buffers are current, WRITE and UPDATE buffers are stored, only the lock's holder changes the array; `ObjectTree` and `StoredArray` are implemented. |
| `refused_open` | `HandleLock` as in `calls` | **Violation** of `RefusedOpenIgnored`. |
| `lock_race` | `HandleLockSteps` as in `steps` | **Violation** of `ToldExclusive` for the component. |
| `new_handle` | as `registry` | **Violation** of `OneTopHandle`. |
| `find_race` | 2 threads, 2 names (`Children`) | **Violation** of `OneChildEach`. |
| `flush_closes` | 1 thread, 3 locators, 1 group, 1 file | **Violation** of `NoSelfWait` where `FlushCloses` is TRUE. |
| `moved_handle` | `Hierarchy` as in `objects`, `Careful` FALSE | **Violation** of `OneHandleEach`. |
| `discont` | `Shapes` as in `calls` | **Violation** of `DiscontFlagged`. |
| `altered` | `Alter` as in `calls` | **Violation** of `OnlyLastAltered`. |

The parts of `calls`:

* Locks are exclusive (`LockStates`) and lost only by a call of
  their owner (`LostOnlyByUnlock`); the links of the Handle tree agree
  (`TreeLinks`); the recursive query never hides a foreign lock
  (`TreeStatusSound`); `RWLock` is implemented.
* Any chain of slices, vectors and cells has the right elements, order and shape
  (`SelectionRight`).
* Variables and locators of a Fortran program belong together one to one
  (`FHeldOnce`).
* Values come back as they were written (`VRoundTrip`), and a call that fails stores
  nothing (`VAllOrNothing`).  The buffer that `datGet1C` takes holds the text of any
  value, and the temporary one is run over by too long texts only (`VBufferHolds`).
* However threads open, create and annul one file, the locators they have stay
  usable (`HeldUsable`), and a second open shares the tree of Handles
  (`ReopenedShares`).
* An array that is made longer or shorter keeps what it held, also after
  failures (`AlteredRight`), and one that could not be altered is still there, under
  its name or the temporary one (`AlteredSafely`), both as far as HDF5 could write the
  values.
* A tuning parameter that was set keeps its value, unless a thread stores what it found
  in the environment that could do so at the time of the `hdsTune`; no thread does
  that twice (`TunedLasts`).
* `hdsTrace` and `datName` tell the path and the name that the program asked for
  (`NamesRight`), and `datRef` the path and a name under which the file is opened
  again, if its last part has one dot (`ReferenceReopens`).

The type invariants `HandleTypeOK` of `HandleLock`, `TypeOK` of `Registry` and
`Mapping` and `FTypeOK` of `Fortran`, `KnownIsOpen` of `Registry` and `FInherited`
of `Fortran` are proved and not run again.

### Why the bounds are enough

* `HandleLock` in `calls`: three Handles make a tree of depth three, a Handle with two
  children, and a file that is opened twice in turn; two threads conflict in
  every way the code tests for, but "several *other* readers" is only one
  thread.  The proofs of section 4 are for any number.
* `HandleLockSteps` in `steps`: a recursive call differs from a plain one as soon as there is
  one component, and a mutex that is missing there shows between two threads.
* `registry`: four locators give a list with a head, a middle and a tail, next
  to a locator in the other list or the other file.  Two trees and two files let
  a file be closed and opened again while another is open.
* `Closing` in `steps`: with three locators a cascade annuls one grouped and one ungrouped
  locator, or two of different groups, while the other thread flushes or
  annuls in the other file.  A locator's memory is not used a second time
  (`mem`), so that a pointer to a freed one is recognised.
* `Mapping` in `objects`: a slice is a proper part of two elements; two locators
  and two threads give every conflict between two mappings; `MaxDataset` = 2 has
  one object that was reset and locators left on the old dataset.
* `Hierarchy` in `objects`: two names and five objects give a structure that
  holds a structure that holds a primitive, and a copy of a structure that is
  not empty; locators 1 and 2 are the two opens of the file and the others range
  over its components.  The `VIEW` `PartSeen` identifies states that differ in
  the numbers of objects, Handles and locators, or in what an erased object
  that is still in use held; no property of a careful program depends on
  these, and of its actions only the bounds do (an erased structure counts
  against the five objects), which is why the number of states can differ a
  little from run to run.
* `Shapes` in `calls`: an error at the end of a row needs two axes, one at the
  end of a plane three; bounds up to 4 go beyond every axis.
* `Fortran`: three variables are the most that one wrapper is given; two addresses
  let a new locator take the memory of one that was freed while another is held.
* `Values`: each conversion of the code is between two kinds of types, and there
  is an unsigned, a signed and a longer type, a text type that is shorter than the
  numbers and one that is not, and `_LOGICAL`.  The numbers are inside and
  outside the range of the small types.
* `Opening`: two threads meet in each step of the other; four locators are two
  pairs of the temporary and the returned one of `hdsNew`; `MaxMade` = 2 lets a
  file be created in place of one that was deleted.
* `Alter`: shapes of one to three axes, so that the last, the last but one and
  the first can be told apart; none holds more than 8 elements.
* `Tuning`: values on both sides of what each parameter accepts.
* `Names`: paths of three names have cells of the top-level object, in the middle
  and at the end, two in one path, and a slice after them; `NameSize` = 4 is the
  length of a short name with one subscript, so that names fit, are cut, and are
  refused.
* Symmetry is used in the runs whose properties are invariants and action
  properties only, over model values that no definition orders.

`CHECK_DEADLOCK FALSE` stands in the cfgs of `steps` and `flush_closes`, where
the locators of `Closing` run out because none is used twice, and of `registry` and
`new_handle`, where a tree that a demoted last primary locator left behind is
never freed and trees run out.  In `steps` a deadlock inside a call would still be
a violation of `CallsReturn` or of `CallsProgress`.

### Fairness

Only runs with liveness properties need it.  In `HandleLockSteps` it is weak
fairness of `Enter(t)` and of `InLock(t)`, in `Closing` of `Inside(t)`: a thread
that is in a call and can take its next step is scheduled some time, as by
any preemptive scheduler.  Nothing makes a thread start a call.  Strong
fairness is not assumed, because pthread mutexes are not handed out in turn: a
thread may wait for ever while others take the mutex again and again.  So
`CallsProgress` says that *some* call returns.  `CallsReturn` of `Closing` is
about every call and holds all the same, since locators are not used
twice in the model and the flushes a thread can wait for are finitely many.

## 4. The proofs

Proved by TLAPS for any finite or infinite sets of threads, locators, Handles,
files and so on, under the `ASSUME` of each module (the null values are not
among the others, names of files are not names of components, `Cell` is finite
and not empty), and with nothing else assumed.

Each module `XProofs` extends `X`.  `CallsProofs` has the proofs of modules that
share no state (`Fortran`, `Values`, `Tuning`, `Opening`, `Names`), `ObjectsProofs` those of
`Mapping` and `Hierarchy`, and `GridProofs` those of `Alter` and `Shapes`.
`ListsProofs` says what `Without`, `Append`, `Tail` and an
insertion at the head do to the elements of a list and that they bring in none twice.  Its lemma
`LeastElement` (a set of naturals that is not empty has a least element, from the
library's theorems on well-founded relations) stands in for induction in the
proofs that go along a list or down a tree: take the first place, or the
least depth, at which something fails, and look at the step before it.  In the
form `UpTo` (a set that has 0 and with each number the next one has all up to n) it
serves where something is computed, and `StepByStep` says that a function
exists that is given by its first value and a step.

**`HandleLockProofs`.**  Inductive invariant `IInv == HandleTypeOK /\ LockStates`.
`LockStates` needs to say that the array of readers holds no thread twice:
otherwise the test `nread_lock == 1` would not mean "I am the only reader".  Each
of the primitives `TakeLocks`, `DropLocks`, `NewHandle` and `EraseHandles` keeps
it; `StepKinds` reduces the actions to these four.  With it:

* `LocksLostOnlyByUnlock`: a refused lock, a promotion and another thread's call
  take no lock away, since only Handles that grant the lock are touched.
* `TreeLinksCorrect`: `TreeLinks` is inductive given `IInv`, because what is erased
  is always a whole tree (`Below`) and what is made goes where there is no child of
  its name.
* `QuerySound`: a query that answers "all mine" or "all unlocked" is right for
  Handles at any depth.  The tree must have no circles for that: `NoCircles` says
  that Handles can be numbered so that a component has a higher number than its
  parent.  A new Handle has no components and gets the highest number.
* `TypeCorrect`, `LockStatesCorrect`, `HandleLockImplementsRWLock` (each primitive is one abstract step).

**`HandleLockStepsProofs`.**  For the objects that are a component of no other
(`Top`), with any number of threads in the middle of their calls.  The invariant
says that a thread between `Enter` and `Leave` has the mutex of the Handle it was
called for (`Mutexes`), that it meets such an object only if it was called for
it (`Walks`), and so that what it decided about it in `Test` is still what it would
decide when it comes to `Set` (`Decided`), and that what it was told, or is about
to be told, is what the fields say (`KnownTrue`).  Theorems: `ToldStaysTrue`, and
`CallsActAtOnce`: in terms of what threads were told every `Leave` is one step of
`RWLock` and all else is none.  For components neither holds: run `lock_race`.

**`RegistryProofs`.**  `IInv == TypeOK /\ ListsAgree /\ NothingDangles /\
TreesApart`.  `NothingDangles` is not inductive alone: closing a file frees the
tree of the locator annulled, and that hits no other file only because no
two files share a tree (`TreesApart`); it reaches every locator of the
file only because the lists are complete (`ListsAgree`).  For files in `Kept`,
refinement of `ContainerFile` comes first, then `OwnedIffOpen` as an invariant
of the abstract steps, and from that `OpenWhilePrimary` and `SameTree`, which is
inductive given that a file in use has a primary locator to find the tree by.
Theorems: `RegistryTypeCorrect`, `ListsCorrect`, `NoLocatorDangles`,
`OpenWhilePrimary`, `OneTreeForEachFile`, `RegistryImplementsContainerFile`, and `EraseRequestsHonoured`, from `AskedRight`:
the Handles about which a request is pending are those with the flag, their trees
are allocated, and files that are open are on the disk.  A tree that is freed
takes its flags with it, so that none is left in memory that is used again.

**`ClosingProofs`.**  Threads annul, link, flush and close step by step.  The
footprint of a call (the locators it uses and writes to, the files it uses and
closes) is what `NoConflict` speaks of, and the proof rests on the same: what a
thread holds is in its footprint (`FootOf`), and no footprint writes to what
another uses (`Apart`), so that what is known of a thread's own locators and files
(`PointersOf`, `CascadeOf`, `ToCloseOf`) is not disturbed by a step of another one
(lemma `Undisturbed`).  What all threads share is stated once: `ListsOf` each file,
`LiveOne` (a live locator is in a list of an open file, or some thread has just
taken it out), `KeptOf` (a file that no footprint closes keeps a primary locator
that nobody annuls) and `FlushOf` (of the group that is being flushed, each element
is annulled or still to come).  Theorems: `GroupsStayInStep`, `PointersGood`,
`LiveLocatorsUsable`, `FlushAnnulsAll`, `ClosingImplementsContainerFile`.  They hold
for both values of `FlushCloses`: that flush can wait for ever, but does no harm.

**`CallsProofs`, `Opening`.**  Every locator in the list of the file is one that the
program has, or belongs to exactly one call, and where that call is tells
whether its locator is in the list, whether it has a Handle, and which file it
refers to (`CallOf`, `OwnApart`, `ListRight`).  So the file is only closed when no
call is between its registration and its return.  A call that began while
the program had a locator finds a tree, because that locator is in the list and
has one at every step in between.  Theorems: `LocatorsUsable`, `ReopeningShares`.

**`ObjectsProofs`, `Mapping`.**  `IInv == TypeOK /\ SinceJustified`: as long as a thread is
recorded in `since`, it has the lock its mapping needs, the locator refers to the
dataset that is linked, a READ buffer equals what is stored, and the copy-back
of another mapping would succeed.  Every action either keeps these four or
clears `since`.  Theorems: `MappingTypeCorrect`, `ReadMappingsCurrent`,
`KeptMappingsStored`, `MappingImplementsStoredArray`.

**`ObjectsProofs`, `Hierarchy`.**  The two invariants speak of paths (`Chain`, a
recursive function), so the proof begins with what trees are.  A tree is `Ranked`:
its nodes can be numbered so that the numbers grow from the top down.  From that,
`Chain` exists and satisfies its equation (`ChainsTo`, `ChainDef`: chains up to a
number, then one number more, by `LeastElement`), and "in the hierarchy of a file"
and "below x" are the only sets that are, for each node, what they are for the one
above it (`LinkedDef`, `LinkedOnly`, `BelowDef`, `BelowOnly`).  With these, each
change of a tree (grown, pruned, cut, moved, renamed, copied) has a lemma that
says that it is a tree still, and which objects are in the hierarchy then.

The inductive invariant is `TreesInv`.  Its core, `InStep`, says that there is a
function `at` from some of the live Handles to objects (`Match`): one to one, the
Handle of a top-level object for that object, and any other where its object is: the
object has the name of the Handle, and the parent of the one is that of the other.  Each
locator in use has the Handle of its object, or the Handle is gone and the object is
out of the hierarchy (`FitsIn`).  The Handles that `at` leaves out are needed: an
object that is moved leaves its Handle and those below it behind, live and for
nothing.  Both invariants follow at once.  For the induction, a call takes a
closed set of objects out of `at` (`MatchKept`), puts one found by name in
(`MatchMore`), or erases a Handle with all below it, which are the Handles of
what is below the object (`MatchBelow`).  Assumed is `Careful`, the rule of section 2
under which the run `objects` checks the same; `moved_handle` shows that the
theorems need it.  Theorems: `HandlesFollowObjects`, `OneHandleForEach`.

**`ObjectsProofs`, paths.**  The properties that are about what users see, `ByPath`, compare
paths, and objects have numbers.  From the equation of `Chain` comes one for
`Path`; objects have different paths because siblings have different names
(`PathsDiffer`), and the path of x is the beginning of the path of y exactly if y is
below x (`PathsBelow`).  So there is one function that `Sees` a tree of objects:
its domain has the paths of the objects of the hierarchy, and nothing else.
`ByPath` is that function.  For each way to change a tree there is a lemma
that says which function sees the changed tree: `GrownView`, `PrunedView`,
`CutView`, `CopiedView`, `MovedView`, and `MovedByCopyView` for the two steps of a move
between two files.  The last three rest on `PathsReplanted`: what hangs below a new place
has the old paths with another beginning.  `ObjectTree` also asks that a new
component goes into a structure, so that the invariant is `TreesInv` together with
`Upright`: what is in a group of the hierarchy is in a structure.  Theorems, for a
careful program: `ObjectsFormTree` (the refinement) and `MovesAreWhole`.

**`CallsProofs`, the others.**

* `Fortran`: `FInv == FTypeOK /\ FHeldOnce`.  The wrappers are many, but lemma
  `FKinds` reduces each to a call that leaves the locators alone, hands one
  back, returns a new one, links one or flushes the group, and `FStepInv` looks at
  those.  Theorems: `FortranTypes`, `HeldOnce`, `Inherited`.
* `Values`: the three tables of types agree on the size in memory for every type
  (lemma `LengthInMemory`), so the temporary buffer is large enough for all but texts
  that do not fit the object.  A number with more digits is greater (`DigitsGrow`), so
  `datClen`, which looks at the limits of a type, leaves room for the text of each
  value (`ImageFits`), and `datGet1C` runs over nothing (`BuffersHold`).  The routines are of three kinds (`CallKinds`): nothing is
  stored, all is stored, the object is new; from that `AllOrNothing`.
  `ValuesComeBack` needs two things.  One is about the calls, the invariant
  `RoundInv`: each value that is held is an image, by the conversion that the type
  asks for, of the value that was put, and each value that was got is an image of what is
  held.  The other is about one value (`ValueComesBack`): if it can be held
  then each way back gives it again, for each pair of numeric, logical and text
  types.  For numbers written as texts that rests on `DecimalOk` (the digits
  of a number tell that number, by division with remainder) and `ScanOk` (blanks
  around it and the padding change nothing).
* `Tuning`: a thread that has stored a value of the environment sets the flag next, and
  no thread looks again once it is set (`StoredOnce`); so those that can still store
  are some of those that could at the last `hdsTune` (`NoneJoins`).  Until `hdsTune` is
  called everything that is about to be stored is the default or from the environment
  (`Untuned`).  Theorem: `TunedValueLasts`.
* `Names`: `FlattenSeq` is a recursive function, so `ListsProofs` first shows what it
  gives for one more text, for two lists of texts and for a part of a text
  (`FlatAppend`, `FlatConcat`, `FlatRest`).  The invariant `NamesInv` says that the
  links of the locator are those of the nodes of the HDS path, one after the other; a
  node has a link for its name, if HDF5 knows it, and one for its cell.
  `dat1FixNameCell` works on each link by itself (`FixApart`: a link begins with a
  slash, which is in no name of a cell but at its beginning), so induction on the path
  shows that the slashes left are one fewer than the nodes and that the text with dots
  for them is what HDS writes (`GoodPath`).  `NamesAreRight` follows, for paths of any
  depth.  `ReferencesReopen` needs besides that a written path is the name on top and
  what begins with a mark (`BeginsPath`), and that a file name that was accepted neither
  begins nor ends with a blank (`FileOk`).

**`GridProofs`.**  For arrays with any number of axes of any lengths.  `Grids` gives
the place of an element as a sum of products over the axes, and
`dat1Index2Coords` goes back by division.  First: the sum taken axis by axis, like a
number in digits, tells the subscripts apart (`Index2Coords` undoes `Position`), and
elements are in the order of their subscripts compared from the last axis to the
first.  From that:

* `Alter`: arrays that differ on the last axis only number the elements they share
  alike, so what is kept of the storage is what is kept of the array
  (`AlteringIsRight`, for programs that change the last dimension only, which is what
  the run checks too; run `altered` is about the others).  A cell that holds
  components is one of those that stop the loop, so it is not among the cells
  deleted before it, and what is left under the temporary name after a failing
  renaming has the old values (`AlteringIsSafe`).
* `Shapes`: each locator refers to a box of which it knows the corners.  A slice of
  a slice is a box in a box, at the corner of the one plus that of the other;
  HDF5 selects it in the order of its subscripts, which is the order of the
  slice's own; and a box without gaps, which is what `datVec` accepts, is a row of
  elements one after the other, from its first corner to its last
  (`SelectionIsRight`).

**Model-checked only.**  Liveness (`CallsProgress`, `CallsReturn`) is out of the prover's
reach.  Every other property of the passing runs is a theorem.

## 5. What the checks say about the code

### Disagreements shown by a run

1. **`refused_open`.**  `hdsOpen` of a file whose top-level object another thread
   has locked shares that thread's Handle (l.275), is refused (l.289), and in
   its clean-up erases the Handle and all below it (l.322).  The holder's
   locators become invalid.  `dat1HandleLock.c:52-54` promises that a refused
   request is ignored.
2. **`lock_race`.**  A recursive lock takes no mutex for the components
   (`dat1HandleLock.c:402`), a direct lock of a component takes its mutex; the
   two can test and set the same fields in turn, and two threads are told they
   have the component to themselves.
3. **`moved_handle`.**  `datMove` and `datRenam` leave the Handle under the old
   name.  A locator found under the new name has another Handle, and two
   threads can each lock "the object" for writing.
4. **`discont`.**  `datSlice.c:255` compares a bound with 1 that l.238 has
   decremented, so that a slice from the second row on is not flagged; `datVec`
   then yields elements outside the slice.  The opposite happens also: a
   full slice of a cell or of a slice with an offset may be flagged although it
   is contiguous, because the bounds are compared with the extent of what it
   was taken from.
5. **`flush_closes`.**  `hdsFlush` holds `mutex1` while it annuls.  If one of the
   locators is the last primary of its file, the cascade annuls the file's
   secondary locators, and the first of them that is still in a group asks for
   `mutex1`: the thread waits for itself.
6. **`altered`.**  `datAlter` is documented to change the last dimension only
   (`datAlter.c:29-30`, l.182).  The loop that compares the others ends at
   `ndim-2` (l.168), so that the last but one may change as well: values end up
   under other subscripts, and the cells of a structure array no longer are those
   of its dimensions.

7. **`new_handle`.**  The locator that `hdsNew` returns has a Handle of its own, a
   child of that of the file (`hdsNew.c:199-203`); `hdsOpen` of the same file
   returns the Handle of the file for the same structure, contrary to
   `hdsOpen.c:273-274`.
8. **`find_race`.**  Two threads with read-only locks on an object that find the
   same component at once both see no Handle for it (`dat1Handle.c:153-163`) and
   each make one, in two slots or in the same.  `dat1Handle.c:44-48` promises "one
   (and only one)".

### Seen while modelling

The models do what the code does in these places as well.

* A recursive *query* stops at the first component that differs
  (`dat1HandleLock.c:284`), a recursive *unlock* at the first component the
  thread has not locked (l.465) though `datUnlock.c:22-24` says all are unlocked.
* `datErase` asks for a lock on the parent only; components that others have
  locked go with it.  `datFind` through a read-locked parent demotes the
  thread's own write lock on the component.
* Mapping for UPDATE needs a read-only lock only, since UPDATE has the READ bit
  (`datMap.c:175`, `datUnmap.c:117`); the copy-back then fails, and `datUnmap`
  annuls that error.  `uses_true_mmap` is never reset (`datMap.c:397`), so a
  locator once mapped from the file is not copied back later.  A second
  `datMap` of a locator drops the first buffer.  An array of one element
  that is mapped with `ndim` 0 is not stored, because `datPut` refuses it
  (`datMap.c:42-43` says it is).
* `dat1Reopen` closes the HDF5 file under mapped locators before it reports them.
* `datAnnul` by a thread without the lock drops the mapping and leaks its buffer.
* `datPrmry` on the last primary locator is meant to close the file
  (`datPrmry.c:146-150`).  The flag has been cleared by then, so `dat1Annul` finds
  a secondary locator and leaves the file open, and its Handle tree is leaked
  when the file is opened again.
* The erase flag is read from the Handle of the last primary locator
  (`dat1Annul.c:152`), set in that of the locator given (`hdsErase.c:53-56`).
  After `hdsNew` these can be two Handles for one object
  (`hdsNew.c:199-203`); `EraseHonoured` is stated for the same Handle.
* Opening a file whose top-level object is a primitive fails on a null Handle
  (`hdsOpen.c:247`, `dat1Annul.c:152`).
* `hds2CompareId` compares addresses, so the ids of a file are not sorted and
  duplicates are not removed; `hds1CountLocators` skips files that have
  secondary locators only.
* An `hdsLink` that fails after its checks stores the locator all the same.
* `hdsFlush` reports DAT__FATAL for an element that a cascade of the same flush
  annulled before.

Opening and creating:

* A file that is opened by one thread while another creates it, or by two that
  both find no Handle yet, gets two trees of Handles, and locks in one do not
  exclude locks in the other; `hdsOpen.c:273-274` says the Handle is re-used.
* A failed `H5Fcreate` unlinks the file even if it exists because another thread
  has just made it (`hdsNew.c:231`).  When `dat1New` fails the name has been freed,
  and the new file stays, contrary to the comment at l.226.

`datAlter`:

* For a structure array, other dimensions with the same number of elements are
  accepted and ignored.  A shrink that meets a cell with components has deleted
  the empty cells after it, and the array is left incomplete.
* Any failure that is reported for a primitive leaves the locator closed and without a
  Handle.  If `H5Lmove` fails at the end, the data are under the temporary name only, and
  the next `datAlter` of an object of that name deletes them.
* A failure to write the values into the new dataset is annulled by `datUnmap`
  (`datUnmap.c:144-145`): `datAlter` erases the old dataset (l.357), renames the new one
  and answers OK, with the values lost.  The two properties about altered arrays leave
  out the calls that met such a failure.

Values:

* A blank text read as a number leaves the value uninitialised and does not count
  as bad (`dat1CvtChar.c:52-57` says it does), but for the byte types.  A number in
  a text that is out of range wraps.
* The text of a number or logical value that is longer than its element is copied
  whole, as the length that `snprintf` returns is used (`dat1CvtChar.c:358`), though l.319
  speaks of truncating FALSE to FAL.  It runs into the next element, and over the end of
  the buffer from the last one or, if it is long enough, an earlier one: in `datPut` that
  is the temporary buffer (`datPut.c:226`), in `datGet` what the program gave.
* Texts read into shorter ones are cut all together, not one by one
  (`datGet.c:288-302`), so that they are misplaced, without an error if only
  blanks are lost.  `datGet1C` copies the text that does not fit before it reports
  DAT__TRUNC.
* Bad logical values do not survive in the file, where one byte is kept.

Tuning:

* `hdsTune` before the first query is overridden by the environment, though
  `hdsGtune` promises "the value last specified using the hdsTune routine"; two
  first queries at once can put an old value back, both running what "should only be
  called once" (`hdstuning.c:37`).

Fortran:

* `hdsFree`, `hdsErase`, `datPrmry`, `hdsGroup` and `hdsInfoI` look into a NULL
  locator; `datBasic` tests the status the wrong way.
* A wrapper that fails after it has handed its locator to C exports DAT__NOLOC, and
  the locator is lost (`datExportFloc.c:149-154`).  `hdsFlush` leaves variables
  that name freed locators.
* `DAT_SIZE` and others cut 64-bit numbers silently where `hdsDimC2F` reports
  DAT__DTRNC.

Names (the first four are in the model, which does what the code does):

* `dau1CheckName` lets names of 16 characters through (`oposn >= buflen` counts the
  final nul, which is then written behind the buffer).  `datName` reports such a
  name as cut, and so it does for a cell whose name with its subscripts is longer
  than 15 characters; `datErase`, `datIndex` and `datCell`, which ask for the name
  of the object first, fail for these.
* `datName` of a cell of the top-level array is the subscripts alone.
* `datParen` of a cell gives the array, not the structure that holds it, though
  "the parent structure locator will identify a scalar structure"; of a top-level
  primitive it gives the root group, by a locator without a Handle, where
  DAT__OBJIN is promised (`datParen.c:35-41`).
* A file name of blanks only is not refused: it becomes `.sdf`.  `datRef` appends a
  dot to a name without one, to counteract a removal that `dau1CheckFileName` does
  not make, and takes `.sdf` from `a.b.sdf`, which `dau1CheckFileName` then does
  not add again.
* `dat1New.c:141` says that a name cannot have a dot; nothing tests it.  A name with
  a dot or a bracket would be cut there by `datRef`, and one with a slash would be
  two levels to HDF5.
* The file `a .sdf`, with a blank before the dot, has the reference `a `; opened by
  that it is `a.sdf`, as `dau1CheckFileName` takes blanks off the end.

Temporary objects and counts, which are not modelled:

* When `dat1New` fails in `datTemp`, `datUnlock` returns at once because of the bad
  status: the container stays locked by that thread, and the `datTemp` of any other
  is refused.
* `hdsInfoI`: a filter without `!` excludes nothing (`hdstrack2.c:640`), and without
  filters the locators of the scratch file are counted too.

## 6. What is not modelled

* *Inside the modelled components*: an open or a creation racing the close of the
  same file; the locks on the two Handles that `hdsNew` leaves for one object;
  structure arrays as places in the hierarchy, copies between different
  files; most errors of HDF5 half way through a call (modelled are those of
  `datAlter`, `datMove`, `hdsNew` and the copy-back); `datTemp`; `datMapV` and
  `datBasic`; the listings of locators; overflow of 64-bit sizes; fractions,
  exponents and rounding.
* *Attributes*, error *messages* and listings: sequential code without state of
  its own.  In `Names`, texts that are cut to the length of a buffer, but for
  names, and the rules for the names of types.  *Unimplemented and trivial calls* appear as Fortran wrappers only.
* *HDF5, pthreads, uthash* are external.  Their behaviour is what the calls in
  `src/` rely on: links and open ids, mutual exclusion, a finite map.

## 7. The plan

The order was: locks first, as everything else relies on them; then the registry,
which decides what is open and valid; then the two places where components
call each other (`Closing`, `Mapping`); then the object tree and the arithmetic;
then opening in steps, the Fortran interface, values, altering, tuning and names.

Still to do:

1. `Hierarchy`: the second Handle that `hdsNew` makes, two files, structure arrays
   and their cells.
2. `Opening` against the close of the same file; `datTemp` and its shared
   container.
