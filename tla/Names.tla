-------------------------------- MODULE Names --------------------------------
(***************************************************************************)
(* The names of objects and files as texts: what dau1CheckName and          *)
(* dau1CheckFileName make of those that a program gives, and what datName,  *)
(* hdsTrace and datRef tell of an object that it found.                     *)
(*                                                                         *)
(* HDF5 knows another path than HDS: the cells of a structure array are     *)
(* groups with the subscripts in their names, a top-level structure is the  *)
(* root group and has no name there, and a top-level primitive is inside    *)
(* the root group.  The state is one locator with which a program moves     *)
(* about in a file, and the HDS path of what it asked for.                  *)
(*                                                                         *)
(* A text is a sequence of characters; a number, ".sdf" without its dot and *)
(* DAT__CELLNAME count as one.  Texts cut to the length of a buffer are     *)
(* modelled for names only.                                                 *)
(***************************************************************************)
EXTENDS Integers, FiniteSetsExt, SequencesExt

CONSTANTS
    NameSize,  \* DAT__SZNAM
    Spelling,  \* the names that a program gives
    Components, \* what is in a scalar structure: for each name a kind of object
    TopText,
    TopKind,   \* the kinds of top-level object
    FileText,  \* the file names that a program gives
    Numeral,   \* how the numbers that subscripts can be are written
    MaxDepth   \* of a path

VARIABLES
    place,     \* the file, its top-level object, HDF5's links to the object, and
               \* the bounds of the slice or cell that the locator stands for
    hdspath    \* the names and subscripts that the program went along

nameVars == <<place, hdspath>>

\* The marks in a path, and what the cells of an array are called in HDF5.
CellMark == "ARRAY_OF_STRUCTURES_CELL"
Marks == {"/", ".", "(", CellMark}

\* No name has these marks.  dat1New.c:141: "The name can not have "." in it".
ASSUME NamesAssumption ==
    /\ NameSize \in Nat
    /\ FileText \subseteq Seq(STRING)
    /\ \A name \in DOMAIN Components \cup {TopText} :
          name \in Seq(STRING) \ {<<>>} /\ ToSet(name) \cap Marks = {}
    /\ \A n \in DOMAIN Numeral : Numeral[n] \notin Marks
    /\ \A kind \in {Components[name] : name \in DOMAIN Components} \cup TopKind :
          /\ kind \in [isstruct : BOOLEAN, dims : Seq(Nat \ {0})]
          /\ \A i \in DOMAIN kind.dims : 1..kind.dims[i] \subseteq DOMAIN Numeral

None == <<>>
Flext == <<".", "sdf">>
Scalar == [isstruct |-> TRUE, dims |-> <<>>]

\* The places at which c is in the text s, and the last of them.
Spots(s, c) == {i \in DOMAIN s : s[i] = c}
LastSpot(s, c) == Max({0} \cup Spots(s, c))
From(s, i) == SubSeq(s, i, Len(s))
-----------------------------------------------------------------------------
\* A name without its blanks, in capitals; None when it is refused.  One
\* character more than DAT__SZNAM gets through: buflen counts the final nul.
Capital(c) == CASE c = "a" -> "A" [] c = "b" -> "B" [] OTHER -> c
CheckName(text) ==
    LET kept == SelectSeq(text, LAMBDA c : c # " ")
    IN IF Len(kept) > NameSize + 1 \/ "?" \in ToSet(kept) THEN None
       ELSE [i \in DOMAIN kept |-> Capital(kept[i])]

\* A text without the blanks around it.
Stripped(text) ==
    LET inked == {i \in DOMAIN text : text[i] # " "}
    IN IF inked = {} THEN <<>> ELSE SubSeq(text, Min(inked), Max(inked))

\* What wordexp makes of a text, if it is one word.
Wordexp(text) ==
    LET full == FlattenSeq([i \in DOMAIN text |->
                              IF text[i] = "$" THEN <<"/", "v">> ELSE <<text[i]>>])
        starts == {i \in DOMAIN full : full[i] # " " /\ (i = 1 \/ full[i - 1] = " ")}
    IN IF Cardinality(starts) = 1 THEN Stripped(full) ELSE None

\* A file name without the blanks around it, with .sdf if its last part has no
\* dot, and expanded if there is something to expand.  Only an empty text is
\* refused for being blank: of blanks alone the search for the last character
\* leaves endpos where it was.
CheckFileName(text, shell) ==
    LET body == Stripped(text)
        full == IF LastSpot(body, ".") <= LastSpot(body, "/") THEN body \o Flext ELSE body
    IN IF text = <<>> THEN None
       ELSE IF shell /\ "$" \in ToSet(body) THEN Wordexp(full)
       ELSE full
-----------------------------------------------------------------------------
\* The subscripts of a slice, or of a cell if all its bounds are equal.
EncodeSubscript(bounds) ==
    LET iscell == \A i \in DOMAIN bounds : bounds[i][1] = bounds[i][2]
        axis(i) == (IF i = 1 THEN <<>> ELSE <<",">>) \o <<Numeral[bounds[i][1]]>>
                   \o (IF iscell THEN <<>> ELSE <<":", Numeral[bounds[i][2]]>>)
    IN <<"(">> \o FlattenSeq([i \in DOMAIN bounds |-> axis(i)]) \o <<")">>

Coords2CellName(coords) ==
    <<CellMark>> \o EncodeSubscript([i \in DOMAIN coords |-> <<coords[i], coords[i]>>])

\* HDF5's name of the object.
FullName == IF place.links = <<>> THEN <<"/">>
            ELSE FlattenSeq([i \in DOMAIN place.links |-> <<"/">> \o place.links[i]])

CellRoots(s) == {i \in 1..(Len(s) - 2) : SubSeq(s, i, i + 2) = <<"/", CellMark, "(">>}

\* Mutant: only the first cell of a path is written the HDS way.
FixNameCell_First(s) ==
    LET first == Min({Len(s) + 1} \cup CellRoots(s))
    IN SubSeq(s, 1, first - 1) \o From(s, first + 2)

\* Leaves out every "/" and DAT__CELLNAME that "(" follows.
FixNameCell(s) ==
    FlattenSeq([i \in DOMAIN s |-> IF {i, i - 1} \cap CellRoots(s) = {} THEN <<s[i]>> ELSE <<>>])

\* The root group is the top-level object, and its name in an attribute.
NeedsRootName == place.top.isstruct

HdsTrace ==
    LET clean == FixNameCell(FullName)
        whole == IF ~NeedsRootName THEN Tail(clean)
                 ELSE IF Len(clean) > 1 THEN TopText \o clean ELSE TopText
        dots == [i \in DOMAIN whole |-> IF whole[i] = "/" THEN "." ELSE whole[i]]
    IN [nlev |-> 1 + Cardinality(Spots(whole, "/")),
        path |-> IF place.bounds = <<>> THEN dots ELSE dots \o EncodeSubscript(place.bounds)]

\* What follows the last "/"; the root group has none.  Its name is left as it
\* was set at first when the top-level object is a primitive.
DatName ==
    LET clean == FixNameCell(FullName)
        name == IF Len(clean) > 1 THEN From(clean, LastSpot(clean, "/") + 1)
                ELSE IF NeedsRootName THEN TopText ELSE <<"<<ERROR>>">>
    IN IF Len(name) > NameSize THEN [status |-> "TRUNC", name |-> SubSeq(name, 1, NameSize)]
       ELSE [status |-> "OK", name |-> name]

\* Mutant: a dot is appended to a file name that has one.
FileRef_DotAgain(f) ==
    LET stem == Len(f) - Len(Flext)
        odd == ~(stem >= 1 /\ From(f, stem + 1) = Flext)
        dot == IF LastSpot(f, ".") <= LastSpot(f, "/") THEN <<>> ELSE <<".">>
    IN IF odd THEN <<"'">> \o f \o dot \o <<"'">> ELSE SubSeq(f, 1, stem)

\* The file's name without .sdf, or if it has another end in quotes, with a dot
\* if its last part has none.
FileRef(f) ==
    LET stem == Len(f) - Len(Flext)
        odd == ~(stem >= 1 /\ From(f, stem + 1) = Flext)
        dot == IF LastSpot(f, ".") > LastSpot(f, "/") THEN <<>> ELSE <<".">>
    IN IF odd THEN <<"'">> \o f \o dot \o <<"'">> ELSE SubSeq(f, 1, stem)

\* The path from the first dot, or from the subscript before it.
PathRef ==
    LET path == HdsTrace.path
        marks == Spots(path, "(") \cup (IF HdsTrace.nlev > 1 THEN Spots(path, ".") ELSE {})
    IN IF marks = {} THEN <<>> ELSE From(path, Min(marks))

DatRef == FileRef(place.file) \o PathRef
-----------------------------------------------------------------------------
\* The kind of object that the links lead to.
KindOf(p) ==
    IF p.links = <<>> THEN IF p.top.isstruct THEN p.top ELSE Scalar
    ELSE IF p.links = <<TopText>> /\ ~p.top.isstruct THEN p.top
    ELSE IF Head(Last(p.links)) = CellMark THEN Scalar
    ELSE Components[Last(p.links)]

OneNode(n) == [name |-> n, cell |-> <<>>, slice |-> <<>>]

\* hdsOpen's locator for the top-level object.
TopPlaces ==
    {[file |-> f, top |-> k, bounds |-> <<>>,
      links |-> IF k.isstruct THEN <<>> ELSE <<TopText>>] :
        f \in {CheckFileName(t, s) : t \in FileText, s \in BOOLEAN} \ {None}, k \in TopKind}

NInit == place \in TopPlaces /\ hdspath = <<OneNode(TopText)>>

\* The program opens another file when its locator is of no more use.
OpenAnother == hdspath = <<>> /\ place' \in TopPlaces /\ hdspath' = <<OneNode(TopText)>>

\* datFind, of a component of a scalar structure.
FindNamed(text) ==
    /\ hdspath # <<>> /\ Len(hdspath) < MaxDepth
    /\ KindOf(place) = Scalar /\ CheckName(text) \in DOMAIN Components
    /\ place' = [place EXCEPT !.links = Append(@, CheckName(text))]
    /\ hdspath' = Append(hdspath, OneNode(CheckName(text)))

Coords(dims) == {c \in [DOMAIN dims -> 1..Max(ToSet(dims))] : \A i \in DOMAIN dims : c[i] <= dims[i]}

\* datCell, of a structure array.
CellNamed ==
    /\ KindOf(place).isstruct /\ KindOf(place) # Scalar
    /\ \E c \in Coords(KindOf(place).dims) :
          /\ place' = [place EXCEPT !.links = Append(@, Coords2CellName(c))]
          /\ hdspath' = [hdspath EXCEPT ![Len(hdspath)].cell = c]

\* datSlice and datCell, of a primitive.  What takes in all elements is the array.
SliceNamed ==
    LET dims == KindOf(place).dims IN
    /\ ~KindOf(place).isstruct /\ dims # <<>> /\ place.bounds = <<>>
    /\ \E lo, up \in Coords(dims) :
          /\ \A i \in DOMAIN dims : lo[i] <= up[i]
          /\ \E i \in DOMAIN dims : up[i] - lo[i] + 1 # dims[i]
          /\ LET b == [i \in DOMAIN dims |-> <<lo[i], up[i]>>]
             IN /\ place' = [place EXCEPT !.bounds = b]
                /\ hdspath' = [hdspath EXCEPT ![Len(hdspath)].slice = b]

\* datParen, of whatever has a longer name than the root group.  What it gives
\* for a cell is the array.  For a top-level primitive it is the root group, by
\* a locator without a Handle: hdspath is empty, and the program opens again.
ParentNamed ==
    /\ place.links # <<>>
    /\ place' = [place EXCEPT !.links = Front(@), !.bounds = <<>>]
    /\ hdspath' = IF Last(hdspath).cell # <<>>
                  THEN [hdspath EXCEPT ![Len(hdspath)].cell = <<>>]
                  ELSE Front(hdspath)

NamesNext ==
    \/ OpenAnother
    \/ \E text \in Spelling : FindNamed(text)
    \/ CellNamed \/ SliceNamed \/ ParentNamed

NamesSpec == NInit /\ [][NamesNext]_nameVars
-----------------------------------------------------------------------------
\* The nodes as HDS writes them.
Subscript(node) ==
    IF node.cell # <<>> THEN EncodeSubscript([i \in DOMAIN node.cell |-> <<node.cell[i], node.cell[i]>>])
    ELSE IF node.slice # <<>> THEN EncodeSubscript(node.slice)
    ELSE <<>>
Written(nodes) ==
    FlattenSeq([i \in DOMAIN nodes |->
                  (IF i = 1 THEN <<>> ELSE <<".">>) \o nodes[i].name \o Subscript(nodes[i])])

\* hdsTrace tells the path and the number of levels that the program asked for,
\* with the subscripts of cells on the way and of the slice or cell at its end.
\* datName tells the last name, with the subscripts of a cell of a structure
\* array, or that this is longer than DAT__SZNAM; of a cell of the top-level
\* object it tells the subscripts alone.
NamesRight ==
    hdspath # <<>> =>
    LET last == Last(hdspath)
        name == (IF Len(hdspath) = 1 /\ last.cell # <<>> THEN <<>> ELSE last.name)
                \o (IF last.cell # <<>> THEN Subscript(last) ELSE <<>>)
    IN /\ HdsTrace = [nlev |-> Len(hdspath), path |-> Written(hdspath)]
       /\ DatName = IF Len(name) > NameSize
                    THEN [status |-> "TRUNC", name |-> SubSeq(name, 1, NameSize)]
                    ELSE [status |-> "OK", name |-> name]

\* datRef's text is a file name and the path after the top-level name.  The same
\* file is opened with that name, with or without its quotes, if the last part
\* of its own name has just one dot.  (With more, .sdf is taken away and not
\* added again; with none, the dot that is added stays; a blank before .sdf is
\* at the end of the name given, and lost.)
ReferenceReopens ==
    hdspath # <<>> =>
    LET rest == From(Written(hdspath), Len(TopText) + 1)
        f == SubSeq(DatRef, 1, Len(DatRef) - Len(rest))
        bare == IF f[1] = "'" THEN SubSeq(f, 2, Len(f) - 1) ELSE f
        field == From(place.file, LastSpot(place.file, "/") + 1)
    IN /\ From(DatRef, Len(f) + 1) = rest
       /\ place.file[1] # "'" /\ Last(bare) # " " /\ Cardinality(Spots(field, ".")) = 1
             => CheckFileName(bare, FALSE) = place.file
=============================================================================
