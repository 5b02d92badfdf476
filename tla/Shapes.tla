------------------------------- MODULE Shapes -------------------------------
(***************************************************************************)
(* Slices, vectors and cells: the arithmetic on bounds and subscripts.       *)
(*                                                                         *)
(* A program takes the locator of an array and derives another from it,      *)
(* with datSlice, datVec or datCell, and another from that, and so on.  Each *)
(* locator refers to elements of the array by an HDF5 dataspace: an extent   *)
(* and at most one box selected in it.  HDS counts elements from 1 and       *)
(* varies the first axis fastest; HDF5 counts from 0 and varies the last.    *)
(*                                                                         *)
(* The state is the locator at the end of such a chain, and next to it, as   *)
(* history, what the program asked for.                                      *)
(***************************************************************************)
EXTENDS Grids

CONSTANTS
    Shape,     \* the dimensions an array can have, in HDS order
    MaxBound   \* the largest bound or subscript a program asks for

ASSUME ShapesAssumption ==
    /\ Shape \subseteq Seq(Nat \ {0})
    /\ MaxBound \in Nat

VARIABLES
    isstruct,  \* an array of structures, or a primitive
    dims,      \* its dimensions, in HDS order
    cell,      \* for a structure: the number of the cell it is itself, or 0
    sloc,      \* the locator
    want,      \* history: the elements the program asked for
    exact      \* history: every selection that was vectorised was contiguous
               \* ("want" is not kept up when that is no longer so)

shapeVars == <<isstruct, dims, cell, sloc, want, exact>>

\* A dataspace: its extent and the corners of the selected box, from 0.  "all"
\* says that there is no hyperslab and everything is selected.
NoSpace == [ext |-> <<>>, all |-> TRUE, start |-> <<>>, stop |-> <<>>]
WholeSpace(e) == [NoSpace EXCEPT !.ext = e]

-----------------------------------------------------------------------------
(* HDF5: what a selection refers to, in the order of reading and writing *)

\* The number, from 0, of the element at coordinates p: the last axis varies fastest.
RowMajor(ext, p) ==
    LET number[i \in 0..Len(ext)] == IF i = 0 THEN 0 ELSE number[i - 1] * ext[i] + p[i]
    IN number[Len(ext)]

\* The numbers of the elements that the dataspace sp selects.
SelectedElements(sp) ==
    LET n == Len(sp.ext)
        Inside(p) == sp.all \/ \A i \in 1..n : p[i] \in sp.start[i]..sp.stop[i]
        Coordinates == {p \in [1..n -> 0..(Max({1} \cup ToSet(sp.ext)) - 1)] :
                          \A i \in 1..n : p[i] < sp.ext[i]}
    IN {RowMajor(sp.ext, p) : p \in {q \in Coordinates : Inside(q)}}

-----------------------------------------------------------------------------
(* The dimensions and bounds of a locator *)

\* dat1ImportDims, dat1ExportDims: between HDS order and HDF5 order.
Transposed(s) == Reverse(s)

HasSpace(l) == ~isstruct \/ l.vectorized

\* dat1GetDataDims: the dimensions of the whole array, HDS order.
DataDims(l) == IF isstruct THEN dims ELSE Transposed(l.space.ext)

\* dat1GetBounds: the first and last subscripts of the selection, HDS order.
Bounds(l) ==
    LET d == IF HasSpace(l) THEN Transposed(l.space.ext) ELSE dims
    IN IF l.space.all
       THEN [lower |-> [i \in DOMAIN d |-> 1], upper |-> d]
       ELSE [lower |-> Transposed([i \in DOMAIN d |-> l.space.start[i] + 1]),
             upper |-> Transposed([i \in DOMAIN d |-> l.space.stop[i] + 1])]

Extent(b) == [i \in DOMAIN b.lower |-> b.upper[i] - b.lower[i] + 1]

\* datShape: a cell has no axes, whatever its dataspace says.
DatShape(l) == IF l.iscell THEN <<>> ELSE Extent(Bounds(l))

-----------------------------------------------------------------------------
(* datSlice *)

\* An upper bound of zero stands for the last element of its axis.
CapUpper(d, upper) == [i \in DOMAIN d |-> IF upper[i] <= 0 THEN d[i] ELSE upper[i]]

WithinBounds(d, lower, upper) ==
    \A i \in DOMAIN d : /\ 1 <= lower[i] /\ lower[i] <= d[i]
                        /\ lower[i] <= upper[i] /\ upper[i] <= d[i]

\* Mutant: the bounds are taken as subscripts of the whole array.
InDataset_OwnGrid(b, s) == s

\* Subscripts s of a selection with bounds b, as subscripts of the whole.
InDataset(b, s) == [i \in DOMAIN s |-> s[i] + b.lower[i] - 1]

\* The locator made by datSlice.  The bounds are in HDF5 order but count from
\* 1, until h5lower is decremented for H5Sselect_hyperslab; the flag is then
\* computed from the decremented bounds.
Sliced(l, lower, upper) ==
    LET b == Bounds(l)
        h5dims == Transposed(Extent(b))
        first == Transposed(InDataset(b, lower))
        h5upper == Transposed(InDataset(b, CapUpper(Extent(b), upper)))
        nelem == Product([i \in DOMAIN first |-> h5upper[i] - first[i] + 1])
        some == nelem # Product(h5dims)
        h5lower == IF some THEN [i \in DOMAIN first |-> first[i] - 1] ELSE first
        broken == \E i \in 2..Len(first) : h5lower[i] > 1 \/ h5upper[i] < h5dims[i]
    IN [l EXCEPT !.space = IF some
                           THEN [ext |-> l.space.ext, all |-> FALSE, start |-> h5lower,
                                 stop |-> [i \in DOMAIN h5upper |-> h5upper[i] - 1]]
                           ELSE @,
                 !.isdiscont = @ \/ broken]

\* The bounds that datSlice accepts.
SliceAllowed(l, lower, upper) ==
    LET d == Extent(Bounds(l)) IN
    /\ ~isstruct
    /\ d # <<>> /\ Len(lower) = Len(d) /\ Len(upper) = Len(d)
    /\ WithinBounds(d, lower, CapUpper(d, upper))

\* What is asked for with these bounds: the cells of a box of what there is.
\* A single cell can be sliced, as an array of one element, and stays a cell.
Asked(lower, upper) ==
    LET up == CapUpper(Extent(Bounds(sloc)), upper)
    IN IF sloc.iscell \/ ~exact THEN want
       ELSE [s \in Subscripts([i \in DOMAIN lower |-> up[i] - lower[i] + 1]) |->
                want[[i \in DOMAIN s |-> s[i] + lower[i] - 1]]]

DatSlice(lower, upper) ==
    /\ SliceAllowed(sloc, lower, upper)
    /\ sloc' = Sliced(sloc, lower, upper)
    /\ want' = Asked(lower, upper)
    /\ UNCHANGED <<isstruct, dims, cell, exact>>

-----------------------------------------------------------------------------
(* datVec *)

\* Is there anything to do?  A cell of a vector stays a cell.
NeedsVec(l) == Len(DataDims(l)) # 1 /\ ~l.vectorized

\* The locator made by datVec, unless it is a plain clone.
Vectorised(l) ==
    LET d == DataDims(l)
        ifirst == Position(d, Bounds(l).lower) - 1
        ilast == Position(d, Bounds(l).upper) - 1
        plane == Product(d)
    IN [l EXCEPT !.space = IF 1 < plane
                           THEN [ext |-> <<plane>>, all |-> FALSE,
                                 start |-> <<ifirst>>, stop |-> <<ilast>>]
                           ELSE WholeSpace(<<plane>>),
                 !.vectorized = TRUE,
                 !.iscell = FALSE]

\* What is asked for: all there is, in one axis.
AsVector(w, d) ==
    [k \in {<<n>> : n \in 1..Cardinality(DOMAIN w)} |->
        w[CHOOSE s \in DOMAIN w : Position(d, s) = k[1]]]

\* The elements that the locator refers to, numbered from 0.
Selected ==
    CASE isstruct /\ cell # 0 -> {cell - 1}
      [] isstruct /\ cell = 0 /\ ~sloc.vectorized -> 0..(Product(dims) - 1)
      [] OTHER -> SelectedElements(sloc.space)

Contiguous(S) == S # {} => Cardinality(S) = Max(S) - Min(S) + 1

DatVec ==
    /\ ~sloc.isdiscont
    /\ IF NeedsVec(sloc)
       THEN /\ sloc' = Vectorised(sloc)
            /\ want' = IF exact THEN AsVector(want, DatShape(sloc)) ELSE want
            /\ exact' = (exact /\ Contiguous(Selected))
       ELSE UNCHANGED <<sloc, want, exact>>
    /\ UNCHANGED <<isstruct, dims, cell>>

-----------------------------------------------------------------------------
(* datCell *)

\* The subscripts in the name of the structure that is a cell.
CellName(l, subs) ==
    IF l.vectorized /\ Len(dims) > 1 THEN Index2Coords(subs[1], dims) ELSE subs

\* datCell refuses a scalar, and subscripts that do not fit the shape.
CellAllowed(l, subs) ==
    /\ DatShape(l) # <<>> /\ Len(subs) = Len(DatShape(l))
    /\ \A i \in DOMAIN subs : subs[i] > 0

\* What is asked for: one element.
AskedCell(subs) == IF exact THEN [s \in {<<>>} |-> want[subs]] ELSE want

\* A cell of a primitive is a slice of one element.
PrimitiveCell(subs) ==
    /\ SliceAllowed(sloc, subs, subs)
    /\ sloc' = [Sliced(sloc, subs, subs) EXCEPT !.iscell = TRUE, !.isdiscont = FALSE]
    /\ want' = AskedCell(subs)
    /\ UNCHANGED <<isstruct, dims, cell, exact>>

\* A cell of an array of structures is a group of its own; opening it fails if
\* no cell has that name.
StructureCell(subs) ==
    /\ isstruct /\ dims # <<>>
    /\ CellName(sloc, subs) \in Subscripts(dims)
    /\ cell' = Position(dims, CellName(sloc, subs))
    /\ dims' = <<>>
    /\ sloc' = [space |-> NoSpace, vectorized |-> FALSE, iscell |-> TRUE, isdiscont |-> FALSE]
    /\ want' = AskedCell(subs)
    /\ UNCHANGED <<isstruct, exact>>

\* A scalar structure that has been vectorised is only cloned.
ScalarStructureCell ==
    /\ isstruct /\ dims = <<>>
    /\ UNCHANGED shapeVars

DatCell(subs) ==
    /\ CellAllowed(sloc, subs)
    /\ PrimitiveCell(subs) \/ StructureCell(subs) \/ ScalarStructureCell

-----------------------------------------------------------------------------
\* datFind: a locator to an object of any shape.
ShapesInit ==
    /\ isstruct \in BOOLEAN
    /\ dims \in Shape
    /\ cell = IF dims = <<>> THEN 1 ELSE 0
    /\ sloc = [space |-> IF isstruct THEN NoSpace ELSE WholeSpace(Transposed(dims)),
               vectorized |-> FALSE, iscell |-> FALSE, isdiscont |-> FALSE]
    /\ want = [s \in Subscripts(dims) |-> Position(dims, s) - 1]
    /\ exact = TRUE

\* The bounds or subscripts that a program can give for an array of shape d;
\* any other number of them is refused.
Asks(d) == [DOMAIN d -> 0..MaxBound]

ShapesNext ==
    \/ \E lower, upper \in Asks(Bounds(sloc).upper) : DatSlice(lower, upper)
    \/ DatVec
    \/ \E subs \in Asks(DatShape(sloc)) : DatCell(subs)

ShapesSpec == ShapesInit /\ [][ShapesNext]_shapeVars

-----------------------------------------------------------------------------
(* Properties *)

\* However a locator was derived, reading through it gives the elements that
\* the program asked for, in the order it expects: slices of slices, of
\* vectors and of cells, vectors of slices, cells of all of these (datSlice,
\* datVec, datCell); and datShape tells the shape of what was asked for.  Where
\* a broken selection was vectorised this is not so.
SelectionRight ==
    exact =>
        /\ DOMAIN want = Subscripts(DatShape(sloc))
        /\ Cardinality(Selected) = Cardinality(DOMAIN want)
        /\ \A s \in DOMAIN want :
              /\ want[s] \in Selected
              /\ Cardinality({e \in Selected : e <= want[s]}) = Position(DatShape(sloc), s)

\* datSlice's flag: "indicating if the returned object represents a
\* discontiguous selection of array elements".  A locator without the flag is
\* one that datVec may vectorise.
DiscontFlagged == (~isstruct /\ ~sloc.isdiscont) => Contiguous(Selected)
=============================================================================
