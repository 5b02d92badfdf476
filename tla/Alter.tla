-------------------------------- MODULE Alter --------------------------------
(***************************************************************************)
(* Changing the size of an array with datAlter.                             *)
(*                                                                         *)
(* A primitive gets a new HDF5 dataset under a temporary name: the values   *)
(* are copied, the old dataset is erased, and the new one takes its name.   *)
(* (Datasets are contiguous, so H5Dset_extent fails.)  The values go through *)
(* a mapping, and datUnmap annuls an error in writing them back: datAlter    *)
(* goes on, and may answer OK for an array that lost them.  The cells of a   *)
(* structure array are groups with the subscripts in their names; those     *)
(* that are missing are made, those in excess deleted, one after another.   *)
(*                                                                         *)
(* The state is one array that a program alters, writes to and finds again. *)
(* One action is one call; HDF5 may fail where the code asks it to.         *)
(***************************************************************************)
EXTENDS Grids

CONSTANTS AlterShape   \* the dimensions that a program asks for, in HDS order

ASSUME AlterAssumption == AlterShape \subseteq Seq(Nat \ {0})

VARIABLES
    sort,      \* "primitive" or "structure"
    size,      \* the dimensions
    values,    \* of a primitive: the values in the order they are stored, or Undefined
    cells,     \* of a structure: the cells there are; TRUE if one holds components
    there,     \* is something linked under the name of the array?
    leftover,  \* the dataset linked under the temporary name, if there is one
    unwritten, \* has the last call failed to write values, without telling so?
    usable,    \* can the program go on with its locator?
    outcome    \* how the last call ended

avars == <<sort, size, values, cells, there, leftover, unwritten, usable, outcome>>

Undefined == <<>>
ErrorAlone == {"DIMIN", "DELIN", "OBJNF", "HDF5E"}

\* The dimensions that are let through: the loop that compares them ends two
\* short of the last.
Accepted(new) ==
    /\ Len(new) = Len(size)
    /\ \A i \in 1..(Len(new) - 2) : new[i] = size[i]

Reject(why) ==
    /\ outcome' = why /\ unwritten' = FALSE
    /\ UNCHANGED <<sort, size, values, cells, there, leftover, usable>>

-----------------------------------------------------------------------------
(* Structures *)

\* The cells from place "from" on in a grid d, and those that come before the
\* first one in bad.
CellsFrom(d, from) == {Index2Coords(n, d) : n \in from..Product(d)}
CellsUntil(d, from, bad) ==
    {Index2Coords(n, d) : n \in {m \in from..Product(d) : \A i \in from..m : Index2Coords(i, d) \notin bad}}

\* New cells are made, unless one of them is there already.
Extend(new) ==
    LET from == Product(size) + 1
        bad == CellsFrom(new, from) \cap DOMAIN cells
        made == CellsUntil(new, from, bad)
    IN /\ cells' = [s \in DOMAIN cells \cup made |-> s \in DOMAIN cells /\ cells[s]]
       /\ size' = IF bad = {} THEN new ELSE size
       /\ outcome' = IF bad = {} THEN "OK" ELSE "HDF5E"

\* Mutant: a cell is deleted before it is looked into.
Shrink_Unseen(new) ==
    /\ cells' = Restrict(cells, DOMAIN cells \ CellsFrom(size, Product(new) + 1))
    /\ size' = new
    /\ outcome' = "OK"

\* Cells in excess are deleted until one holds components or is missing.
Shrink(new) ==
    LET from == Product(new) + 1
        bad == {s \in CellsFrom(size, from) : s \in DOMAIN cells => cells[s]}
    IN /\ cells' = Restrict(cells, DOMAIN cells \ CellsUntil(size, from, bad))
       /\ size' = IF bad = {} THEN new ELSE size
       /\ outcome' = IF bad = {} THEN "OK" ELSE "DELIN"

AlterStructure(new) ==
    /\ sort = "structure"
    /\ CASE Product(new) > Product(size) -> Extend(new)
         [] Product(new) < Product(size) -> Shrink(new)
         [] OTHER -> outcome' = "OK" /\ UNCHANGED <<size, cells>>
    /\ unwritten' = FALSE
    /\ UNCHANGED <<sort, values, there, leftover, usable>>

-----------------------------------------------------------------------------
(* Primitives *)

\* Mutant: elements are copied by their place in the larger of the two.
Resized_Stale(new) ==
    IF values = Undefined THEN Undefined
    ELSE [n \in 1..Product(new) |-> values[Min({n, Len(values)})]]

\* The values that are copied into the mapping of the new dataset.
Resized(new) ==
    IF values = Undefined THEN Undefined
    ELSE [n \in 1..Product(new) |-> IF n <= Len(values) THEN values[n] ELSE 0]

\* What the new dataset may hold if datUnmap cannot write them: nothing, or
\* those before some place.
Torn(new) ==
    IF values = Undefined THEN {}
    ELSE {Undefined} \cup {[n \in 1..Product(new) |-> IF n <= k THEN Resized(new)[n] ELSE 0] :
                           k \in 0..(Product(new) - 1)}

\* A call ends with an error; the dataset that it made is in left.
Failed(left, error) == leftover' = left /\ outcome' = error /\ UNCHANGED <<values, size>>

Dataset(new, held) == {[size |-> new, values |-> held]}

\* dat1NewPrim fails.  What an earlier failure left was deleted before.
NotMade == Failed({}, "HDF5E") /\ unwritten' = FALSE /\ UNCHANGED there

\* One of the two cannot be mapped: the new dataset stays under its temporary name.
NotCopied(new) ==
    /\ values # Undefined
    /\ Failed(Dataset(new, Undefined), "HDF5E")
    /\ unwritten' = FALSE
    /\ UNCHANGED there

\* datErase fails, or H5Lmove after the old dataset has been erased.
NotErased(new, held) == Failed(Dataset(new, held), "HDF5E") /\ UNCHANGED there
NotRenamed(new, held) == Failed(Dataset(new, held), "lost") /\ there' = FALSE

\* The new dataset takes the place of the old one.
Replaced(new, held) ==
    /\ values' = held
    /\ size' = new
    /\ leftover' = {}
    /\ outcome' = "OK"
    /\ UNCHANGED <<there, usable>>

\* The identifiers of the locator are closed and its Handle is given up also
\* if there was an error.
AlterPrimitive(new) ==
    /\ sort = "primitive"
    /\ \/ usable' = FALSE /\ (NotMade \/ NotCopied(new))
       \/ \E held \in {Resized(new)} \cup Torn(new) :
             /\ unwritten' = (held # Resized(new))
             /\ \/ Replaced(new, held)
                \/ usable' = FALSE /\ (NotErased(new, held) \/ NotRenamed(new, held))
    /\ UNCHANGED <<sort, cells>>

DatAlter(new) ==
    /\ usable
    /\ IF Accepted(new) THEN AlterStructure(new) \/ AlterPrimitive(new)
       ELSE Reject("DIMIN")

-----------------------------------------------------------------------------
(* Other calls *)

\* datPut: every element gets a value of its own.
PutAll ==
    /\ usable /\ sort = "primitive"
    /\ values' = [n \in 1..Product(size) |-> n]
    /\ outcome' = "OK" /\ unwritten' = FALSE
    /\ UNCHANGED <<sort, size, cells, there, leftover, usable>>

\* datCell and datNew: a cell that there is gets a component, whatever the dimensions tell.
PutInCell ==
    /\ usable
    /\ \E s \in DOMAIN cells : cells' = [cells EXCEPT ![s] = TRUE]
    /\ outcome' = "OK" /\ unwritten' = FALSE
    /\ UNCHANGED <<sort, size, values, there, leftover, usable>>

\* datFind, for a new locator.
FindAgain ==
    /\ ~usable
    /\ IF there
       THEN /\ usable' = TRUE /\ outcome' = "OK" /\ unwritten' = FALSE
            /\ UNCHANGED <<sort, size, values, cells, there, leftover>>
       ELSE Reject("OBJNF")

AInit ==
    /\ sort \in {"primitive", "structure"}
    /\ size \in AlterShape
    /\ values = Undefined
    /\ cells = [s \in IF sort = "structure" THEN Subscripts(size) ELSE {} |-> FALSE]
    /\ there = TRUE /\ leftover = {} /\ unwritten = FALSE /\ usable = TRUE /\ outcome = "OK"

ANext == (\E new \in AlterShape : DatAlter(new)) \/ PutAll \/ PutInCell \/ FindAgain

ASpec == AInit /\ [][ANext]_avars

-----------------------------------------------------------------------------
(* Properties *)

\* What the element or cell with subscripts s holds.
Holding(s) == IF sort = "structure" THEN s \in DOMAIN cells /\ cells[s]
              ELSE IF values = Undefined THEN 0 ELSE values[Position(size, s)]

AllButLast(d) == SubSeq(d, 1, Len(d) - 1)

\* The cells of a structure array are those that its dimensions tell of.
Complete == sort = "structure" => DOMAIN cells = Subscripts(size)

\* After an array was made longer or shorter, each element that it still has
\* holds what it held under the same subscripts, however often it is altered
\* and whatever failed before, also half way; the others hold nothing; and a
\* structure array is complete if it was (datAlter).  Not so if HDF5 failed to
\* write the values: datUnmap does not tell, and datAlter answers OK.
AlteredRight ==
    [][/\ outcome' = "OK" /\ ~unwritten'
       /\ size' # size /\ AllButLast(size') = AllButLast(size)
       => /\ \A s \in Subscripts(size') : Holding(s)' = IF s \in Subscripts(size) THEN Holding(s)
                                                     ELSE IF sort = "structure" THEN FALSE ELSE 0
          /\ Complete => Complete']_avars

\* The values, in the order they are stored, that both sizes have.
SavedIn(d) == /\ values # Undefined => d.values # Undefined
              /\ \A n \in DOMAIN values \cap DOMAIN d.values : d.values[n] = values[n]

\* "If a structure array is to be reduced in size, the operation will fail if
\* any truncated elements contain components": no call deletes a component.  A
\* call that ends with an error leaves what a primitive holds under its name or,
\* if the renaming at the very end fails, has it under the temporary name
\* (datAlter), unless HDF5 failed to write it.
AlteredSafely ==
    [][/\ \A s \in DOMAIN cells : cells[s] => s \in DOMAIN cells' /\ cells'[s]
       /\ outcome' \in ErrorAlone => UNCHANGED <<there, values, size>>
       /\ outcome' = "lost" /\ ~unwritten' => \E d \in leftover' : SavedIn(d)]_avars

\* "Alter the size of an array by increasing or reducing the last (or only)
\* dimension."
OnlyLastAltered ==
    [][size' # size => AllButLast(size') = AllButLast(size)]_avars
=============================================================================
