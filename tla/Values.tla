------------------------------- MODULE Values -------------------------------
(***************************************************************************)
(* Values: typed access to a primitive object.                               *)
(*                                                                         *)
(* A program creates an object of one type, writes values of another into    *)
(* it and reads them as a third.  HDF5 converts between the numeric types,   *)
(* and between strings of different lengths; the conversions that involve    *)
(* _CHAR on one side, or _LOGICAL, are made by HDS, in a temporary buffer.   *)
(*                                                                         *)
(* A value is an integer (_REAL and _DOUBLE hold integers here), 0, 1 or     *)
(* BadL for a _LOGICAL, or a sequence of as many characters as its _CHAR*n   *)
(* type has.  The state is the object, what was last written into it, what   *)
(* was last read from it, and what the last call reported.                   *)
(***************************************************************************)
EXTENDS Grids

CONSTANTS
    Span,      \* the number of values of each numeric type in use, 2 to its width
    CharLen,   \* the lengths that _CHAR types have
    VShape,    \* the dimensions that objects have
    VNumbers,  \* the numbers that the program writes
    VTexts     \* the texts that it writes

ASSUME ValuesAssumption ==
    /\ "_WORD" \in DOMAIN Span
    /\ DOMAIN Span \subseteq {"_BYTE", "_UBYTE", "_WORD", "_UWORD", "_INTEGER", "_INT64", "_REAL", "_DOUBLE"}
    \* Every type has the numbers 0 and 1.
    /\ \A t \in DOMAIN Span : Span[t] \in Nat \ {0, 2} /\ Span[t] % 2 = 0
    \* A byte is shorter than a word.
    /\ \A t \in DOMAIN Span \cap {"_BYTE", "_UBYTE"} : 2 * Span[t] <= Span["_WORD"]
    /\ CharLen \subseteq Nat \ {0}
    /\ VShape \subseteq Seq(Nat \ {0})
    /\ VNumbers \subseteq Int
    /\ VTexts \subseteq Seq(STRING)

VARIABLES
    vtype,     \* the type of the object
    vshape,    \* its dimensions
    vdata,     \* its values, or Unwritten
    vput,      \* history: what was last written without an error
    vgot,      \* what was last read since, or Nothing
    vstat,     \* what the last call reported
    voverrun   \* the buffer that the last call ran over the end of

vvars == <<vtype, vshape, vdata, vput, vgot, vstat, voverrun>>

Unwritten == << >>
BadL == 2
DAT__MXCHR == 65535
Numeric == DOMAIN Span
Unsigned == {"_UBYTE", "_UWORD"}

\* A type: its name, and the length for _CHAR.
T(name) == [name |-> name, len |-> 0]
Char(n) == [name |-> "_CHAR", len |-> n]
VType == {T(name) : name \in Numeric \cup {"_LOGICAL"}} \cup {Char(n) : n \in CharLen}
Nothing == [type |-> T("none"), values |-> <<>>]

-----------------------------------------------------------------------------
(* Types in HDF5 *)

\* The HDF5 type of a type specification, in memory or in the file.
H5Type(type, asmem) ==
    CASE type.name \in Unsigned  -> [class |-> "INTEGER", sign |-> FALSE, size |-> IF type.name = "_UBYTE" THEN 1 ELSE 2]
      [] type.name = "_BYTE"     -> [class |-> "INTEGER", sign |-> TRUE, size |-> 1]
      [] type.name = "_WORD"     -> [class |-> "INTEGER", sign |-> TRUE, size |-> 2]
      [] type.name = "_INTEGER"  -> [class |-> "INTEGER", sign |-> TRUE, size |-> 4]
      [] type.name = "_INT64"    -> [class |-> "INTEGER", sign |-> TRUE, size |-> 8]
      [] type.name = "_REAL"     -> [class |-> "FLOAT", sign |-> TRUE, size |-> 4]
      [] type.name = "_DOUBLE"   -> [class |-> "FLOAT", sign |-> TRUE, size |-> 8]
      [] type.name = "_LOGICAL"  -> [class |-> "BITFIELD", sign |-> FALSE, size |-> IF asmem THEN 4 ELSE 1]
      [] type.name = "_CHAR"     -> [class |-> "STRING", sign |-> FALSE, size |-> type.len]

\* The HDS type of an HDF5 type.
HdsType(h) ==
    CASE h.class = "INTEGER" /\ ~h.sign -> IF h.size = 1 THEN "_UBYTE" ELSE "_UWORD"
      [] h.class = "INTEGER" /\ h.sign  -> CHOOSE t \in {"_BYTE", "_WORD", "_INTEGER", "_INT64"} :
                                              H5Type(T(t), TRUE).size = h.size
      [] h.class = "FLOAT"              -> IF h.size = 4 THEN "_REAL" ELSE "_DOUBLE"
      [] h.class = "STRING"             -> "_CHAR"
      [] h.class = "BITFIELD"           -> "_LOGICAL"

\* The type in memory of a type in the file.
Native2MemType(h) == IF HdsType(h) = "_LOGICAL" THEN [h EXCEPT !.size = 4] ELSE h

\* The bytes of one value in memory.
DatLen(type) == Native2MemType(H5Type(type, FALSE)).size

-----------------------------------------------------------------------------
(* Numbers and texts *)

Lowest(t) == IF t \in Unsigned THEN 0 ELSE -(Span[t] \div 2)
Highest(t) == IF t \in Unsigned THEN Span[t] - 1 ELSE Span[t] \div 2 - 1
VRange(t) == Lowest(t)..Highest(t)

\* The bad value of a numeric type.
VBad(t) == IF t \in Unsigned THEN Highest(t) ELSE Lowest(t)

\* n reduced to the width of t.
Wrapped(n, t) == Lowest(t) + ((n - Lowest(t)) % Span[t])

\* n as the closest number of type t.
Clipped(n, t) == IF n < Lowest(t) THEN Lowest(t) ELSE IF n > Highest(t) THEN Highest(t) ELSE n

Digit == <<"0", "1", "2", "3", "4", "5", "6", "7", "8", "9">>
DigitValue == [c \in ToSet(Digit) |-> CHOOSE d \in 0..9 : Digit[d + 1] = c]

\* A number as a text.
Digits(m) ==
    LET of[k \in 0..m] == IF k < 10 THEN <<Digit[k + 1]>>
                          ELSE Append(of[k \div 10], Digit[(k % 10) + 1])
    IN of
Decimal(n) == IF n < 0 THEN <<"-">> \o Digits(-n)[-n] ELSE Digits(n)[n]

\* The number that the first k of some digits tell, and that all of them tell.
Tellings(s) ==
    LET upto[k \in 0..Len(s)] == IF k = 0 THEN 0 ELSE 10 * upto[k - 1] + DigitValue[s[k]] IN upto
Told(s) == Tellings(s)[Len(s)]

\* A text padded, or cut, to n characters, and a text without the blanks
\* before or after it.
Padded(s, n) == [i \in 1..n |-> IF i <= Len(s) THEN s[i] ELSE " "]
Inked(s) == {i \in DOMAIN s : s[i] # " "}
Trimmed(s) == SubSeq(s, 1, Max({0} \cup Inked(s)))
Blankless(s) == SubSeq(s, Min({Len(s) + 1} \cup Inked(s)), Len(s))

\* The numbers that a text begins with: none, or one.
Scanned(s) ==
    LET b == Blankless(s)
        first == IF b # <<>> /\ b[1] = "-" THEN 2 ELSE 1
        IsNumeral(i) == \A j \in first..i : b[j] \in DOMAIN DigitValue
        last == Max({0} \cup {i \in first..Len(b) : IsNumeral(i)})
        n == Told(SubSeq(b, first, last))
    IN IF last = 0 THEN {} ELSE {IF first = 2 THEN -n ELSE n}

\* What a variable holds that was never given a value.
Junk(t) == {Lowest(t), 0, Highest(t)}

-----------------------------------------------------------------------------
(* The conversions that HDS makes.  Each gives the possible results for one  *)
(* value: the value converted, and whether it counts as a bad one.           *)

\* A text read as a number or as a logical value.  Nothing is stored by a scan
\* of a blank text, and this is told from a success for the byte types only.
FromText(s, t) ==
    LET Good(v) == [value |-> v, bad |-> FALSE]
        None == [value |-> VBad(t), bad |-> TRUE]
    IN IF t = "_LOGICAL"
       THEN {Good(IF s[1] \in {"T", "t", "Y", "y"} THEN 1 ELSE 0)}
       ELSE IF Inked(s) = {}
       THEN IF t \in {"_BYTE", "_UBYTE"} THEN {None} ELSE {Good(v) : v \in Junk(t)}
       ELSE IF Scanned(s) = {} THEN {None}
       ELSE LET n == CHOOSE m \in Scanned(s) : TRUE
            IN CASE t \in {"_BYTE", "_UBYTE"} ->
                       {IF Wrapped(n, "_WORD") \in VRange(t) THEN Good(Wrapped(n, "_WORD")) ELSE None}
                 [] t \in {"_WORD", "_UWORD", "_INTEGER"} -> {Good(Wrapped(n, t))}
                 [] OTHER -> {Good(Clipped(n, t))}

\* A number or a logical value as a text.
TextOf(v, t) ==
    IF t # "_LOGICAL" THEN Decimal(v)
    ELSE CASE v = BadL -> <<"*">>
           [] v = 1 -> <<"T", "R", "U", "E">>
           [] v = 0 -> <<"F", "A", "L", "S", "E">>

\* Mutant: any number but 0 is true, and true is -1.
X_FromLogical(v) == IF v = 0 THEN 0 ELSE -1

\* Logical values: any value but 0 is true; of a number the last bit counts.
FromLogical(v) == IF v = 0 THEN 0 ELSE 1

ToLogical(v) == v % 2

\* Which of them, if any, makes the conversion.
WhichConversion(from, to) ==
    IF (from = "_CHAR") # (to = "_CHAR") THEN "char"
    ELSE IF (from = "_LOGICAL") # (to = "_LOGICAL") THEN "logical"
    ELSE "none"

\* What HDF5 makes of a value: of a logical value it stores the low byte, and
\* that of BadL is not 0.
H5Converted(v, from, to) ==
    IF to.name = "_CHAR" THEN Padded(v, to.len)
    ELSE IF to.name = "_LOGICAL" THEN FromLogical(v)
    ELSE Clipped(v, to.name)

\* The possible results for one value of any type.
ConvertedOne(v, from, to) ==
    LET Good(x) == [value |-> x, bad |-> FALSE]
        which == WhichConversion(from.name, to.name)
    IN CASE which = "none" -> {Good(H5Converted(v, from, to))}
         [] which = "char" -> IF from.name = "_CHAR" THEN FromText(v, to.name)
                              ELSE {Good(Padded(TextOf(v, from.name), to.len))}
         [] which = "logical" -> {Good(IF from.name = "_LOGICAL" THEN FromLogical(v) ELSE ToLogical(v))}

\* The possible results for all values.
Converted(values, from, to) ==
    {[values |-> [i \in DOMAIN f |-> f[i].value], bad |-> \E i \in DOMAIN f : f[i].bad] :
       f \in {g \in [DOMAIN values -> UNION {ConvertedOne(values[i], from, to) : i \in DOMAIN values}] :
                \A i \in DOMAIN values : g[i] \in ConvertedOne(values[i], from, to)}}

\* The buffer that a conversion runs over the end of.  The temporary one of
\* datPut and datGet has datLen bytes for each value, which in memory may take
\* more.  Texts are put one after the other into the buffer "texts", each whole
\* however short its space: it runs into that of the next, or past the last one.
Overrun(values, from, to, texts) ==
    IF WhichConversion(from.name, to.name) = "none" THEN "none"
    ELSE IF DatLen(vtype) < H5Type(vtype, TRUE).size THEN "temporary"
    ELSE IF /\ to.name = "_CHAR"
            /\ \E i \in DOMAIN values : \A j \in DOMAIN values :
                  (i - 1) * to.len + Len(TextOf(values[i], from.name)) > j * to.len
    THEN texts ELSE "none"

-----------------------------------------------------------------------------
(* datPut and datGet, for a locator of the object as it is or vectorised *)

VectorShape == <<Product(vshape)>>

\* The type must be primitive, and _CHAR have a possible length.
TypeAccepted(type) ==
    \/ type.name \in Numeric \cup {"_LOGICAL"}
    \/ type.name = "_CHAR" /\ type.len \in 1..DAT__MXCHR

\* What is common to both: the error to report, or "OK".
Refusal(type, shape, dims) ==
    IF ~TypeAccepted(type) THEN "TYPIN" ELSE IF dims # shape THEN "DIMIN" ELSE "OK"

\* A call that fails before it does anything.
Fails(status) ==
    /\ vstat' = status
    /\ voverrun' = "none"
    /\ UNCHANGED <<vtype, vshape, vdata, vput, vgot>>

\* Mutant: they are written if one was bad.
X_DatPut(type, shape, dims, values, after) ==
    IF Refusal(type, shape, dims) # "OK" THEN Fails(Refusal(type, shape, dims))
    ELSE \E c \in Converted(values, type, vtype) :
            /\ vdata' = c.values
            /\ vput' = [type |-> type, values |-> values]
            /\ vstat' = IF c.bad THEN "CONER" ELSE after
            /\ voverrun' = "none"
            /\ vgot' = Nothing
            /\ UNCHANGED <<vtype, vshape>>

\* The values are converted first, and written if none of them was bad; then
\* the status after is reported.
DatPut(type, shape, dims, values, after) ==
    IF Refusal(type, shape, dims) # "OK" THEN Fails(Refusal(type, shape, dims))
    ELSE \E c \in Converted(values, type, vtype) :
            /\ voverrun' = Overrun(values, type, vtype, "temporary")
            /\ vstat' = IF c.bad THEN "CONER" ELSE after
            /\ IF c.bad THEN UNCHANGED <<vdata, vput, vgot>>
               ELSE /\ vdata' = c.values
                    /\ vput' = [type |-> type, values |-> values]
                    /\ vgot' = Nothing
            /\ UNCHANGED <<vtype, vshape>>

\* Texts read into shorter ones: the first bytes of all texts together, and an
\* error if anything but blanks comes after them.
CutTogether(values, n) ==
    LET bytes == FlattenSeq(values)
        k == Len(values) * n
    IN [values |-> [i \in DOMAIN values |-> SubSeq(bytes, (i - 1) * n + 1, i * n)],
        lost |-> Inked(SubSeq(bytes, k + 1, Len(bytes))) # {}]

Read(type) ==
    IF type.name = "_CHAR" /\ vtype.name = "_CHAR" /\ type.len < vtype.len
    THEN {[values |-> CutTogether(vdata, type.len).values,
           status |-> IF CutTogether(vdata, type.len).lost THEN "TRUNC" ELSE "OK"]}
    ELSE {[values |-> c.values, status |-> IF c.bad THEN "CONER" ELSE "OK"] :
             c \in Converted(vdata, vtype, type)}

\* Bad values are read, and reported.
DatGet(type, shape, dims) ==
    IF Refusal(type, shape, dims) # "OK" THEN Fails(Refusal(type, shape, dims))
    ELSE IF vdata = Unwritten THEN Fails("UNSET")
    ELSE \E r \in Read(type) :
            /\ vgot' = [type |-> type, values |-> r.values]
            /\ vstat' = r.status
            /\ voverrun' = Overrun(vdata, vtype, type, "given")
            /\ UNCHANGED <<vtype, vshape, vdata, vput>>
-----------------------------------------------------------------------------
(* The routines.  A name that ends in an underscore stands for the routines   *)
(* of all numeric types and _LOGICAL, which differ in the type they give.     *)

VInput(type) ==
    CASE type.name = "_CHAR" -> {Padded(s, type.len) : s \in VTexts}
      [] type.name = "_LOGICAL" -> {0, 1, BadL}
      [] OTHER -> VNumbers \cap VRange(type.name)
Access == {T(name) : name \in Numeric \cup {"_LOGICAL"}}
Arrays(type, n) == [1..n -> VInput(type)]

\* An object of a new name and type takes the place of the one before.
MakeObject(type, shape) ==
    /\ vtype' = type /\ vshape' = shape
    /\ vdata' = Unwritten
    /\ vput' = Nothing /\ vgot' = Nothing
    /\ vstat' = "OK" /\ voverrun' = "none"
datNew0_ == \E t \in Access : MakeObject(t, <<>>)
datNew1_ == \E t \in Access, n \in 1..2 : <<n>> \in VShape /\ MakeObject(t, <<n>>)
datNewC == \E n \in CharLen, shape \in VShape : MakeObject(Char(n), shape)
datNew0C == \E n \in CharLen : MakeObject(Char(n), <<>>)
datNew1C == \E n \in CharLen, k \in 1..2 : <<k>> \in VShape /\ MakeObject(Char(n), <<k>>)
datReset == MakeObject(vtype, vshape)

\* The dimensions are given by the program.
datPut_ ==
    \E t \in Access, dims \in VShape : \E values \in Arrays(t, Product(dims)) :
        DatPut(t, vshape, dims, values, "OK")
datGet_ == \E t \in Access, dims \in VShape : DatGet(t, vshape, dims)

\* No text at all counts as a blank.
datPutC(shape, n, dims, values, after) ==
    IF n > 0 THEN DatPut(Char(n), shape, dims, values, after)
    ELSE DatPut(Char(1), shape, dims, [i \in 1..Product(dims) |-> <<" ">>], after)
datGetC(shape, n, dims) == DatGet(Char(n), shape, dims)

\* All dimensions must be 1.
IsScalar == \A i \in DOMAIN vshape : vshape[i] = 1
datPut0_ ==
    IF ~IsScalar THEN Fails("DIMIN")
    ELSE \E t \in Access : \E values \in Arrays(t, 1) : DatPut(t, vshape, vshape, values, "OK")
datGet0_ == IF ~IsScalar THEN Fails("DIMIN") ELSE \E t \in Access : DatGet(t, vshape, vshape)
datPut0C ==
    IF ~IsScalar THEN Fails("DIMIN")
    ELSE \E s \in VTexts : datPutC(vshape, Len(s), vshape, <<s>>, "OK")

\* The last character of the space given is for the terminator.
datGet0C ==
    IF ~IsScalar THEN Fails("DIMIN")
    ELSE \E space \in {n + 1 : n \in CharLen \cup {0}} : datGetC(vshape, space - 1, vshape)

\* The object is used as a vector, and must be one: of the locator of shape
\* "shape", the number of elements must be right, and then the number of axes.
Put1(shape) ==
    \E n \in 1..2, t \in Access :
        IF n # Product(shape) THEN Fails("BOUND")
        ELSE \E values \in Arrays(t, n) : DatPut(t, shape, <<n>>, values, "OK")
Get1(shape) ==
    \E maxval \in 1..2, t \in Access :
        IF maxval < Product(shape) THEN Fails("BOUND")
        ELSE DatGet(t, shape, <<Product(shape)>>)
datPut1_ == Put1(vshape)
datGet1_ == Get1(vshape)
datPutV_ == Put1(VectorShape)
datGetV_ == Get1(VectorShape)

\* Mutant: no character for the sign.
X_DatClen(type) ==
    CASE type.name = "_CHAR" -> type.len
      [] type.name = "_LOGICAL" -> 5
      [] OTHER -> Len(Decimal(Highest(type.name)))

\* The number of characters that hold any value of a type.
DatClen(type) ==
    CASE type.name = "_CHAR" -> type.len
      [] type.name = "_LOGICAL" -> 5
      [] OTHER -> Max({Len(Decimal(Lowest(type.name))), Len(Decimal(Highest(type.name)))})

\* Texts of any length are cut to that of the object, which is reported once
\* they are written.
Put1C(shape) ==
    \E n \in 1..2 : \E texts \in [1..n -> VTexts] :
        LET len == DatClen(vtype) IN
        IF n # Product(shape) THEN Fails("BOUND")
        ELSE datPutC(shape, len, <<n>>, [i \in 1..n |-> Padded(texts[i], len)],
                     IF \E i \in 1..n : Len(texts[i]) > len THEN "TRUNC" ELSE "OK")
datPut1C == Put1C(vshape)
datPutVC == Put1C(VectorShape)

\* The texts are read in full, into a buffer of its own, and copied one after the
\* other, terminated, into the bytes that the program has for them.  The text that
\* does not fit is copied too, and no other after it.
Get1C(shape) ==
    \E maxval \in 1..2, space \in 1..9, pointers \in BOOLEAN :
        LET type == Char(DatClen(vtype))
            refusal == Refusal(type, shape, <<Product(shape)>>)
        IN IF pointers /\ maxval < Product(shape) THEN Fails("BOUND")
           ELSE IF refusal # "OK" THEN Fails(refusal)
           ELSE IF vdata = Unwritten THEN Fails("UNSET")
           ELSE \E r \in Read(type) :
                  LET used == FoldSeq(LAMBDA s, k : k + Len(Trimmed(s)) + 1, 0, r.values)
                      fits == used <= space
                  IN /\ vgot' = IF r.status = "OK" /\ fits
                                THEN [type |-> type, values |-> r.values] ELSE Nothing
                     /\ vstat' = IF r.status # "OK" THEN r.status ELSE IF fits THEN "OK" ELSE "TRUNC"
                     /\ voverrun' = IF r.status = "OK" /\ ~fits THEN "given"
                                    ELSE Overrun(vdata, vtype, type, "own")
                     /\ UNCHANGED <<vtype, vshape, vdata, vput>>
datGet1C == Get1C(vshape)
datGetVC == Get1C(VectorShape)

\* The bytes of a value: from a table of all types but those of texts.
datPrec(type) ==
    CASE type.name \in {"_DOUBLE", "_INT64"} -> 8
      [] type.name \in {"_REAL", "_INTEGER", "_LOGICAL"} -> 4
      [] type.name \in {"_UWORD", "_WORD"} -> 2
      [] type.name \in {"_UBYTE", "_BYTE"} -> 1
      [] OTHER -> DatLen(type)

VInit ==
    /\ vtype \in VType /\ vshape \in VShape
    /\ vdata = Unwritten
    /\ vput = Nothing /\ vgot = Nothing
    /\ vstat = "OK" /\ voverrun = "none"

VNext ==
    \/ datNew0_ \/ datNew1_ \/ datNewC \/ datNew0C \/ datNew1C \/ datReset
    \/ datPut_ \/ datPut0_ \/ datPut1_ \/ datPutV_
    \/ \E n \in CharLen \cup {0}, dims \in VShape :
          \E values \in Arrays(Char(n), Product(dims)) : datPutC(vshape, n, dims, values, "OK")
    \/ datPut0C \/ datPut1C \/ datPutVC
    \/ datGet_ \/ datGet0_ \/ datGet1_ \/ datGetV_
    \/ \E n \in CharLen \cup {0}, dims \in VShape : datGetC(vshape, n, dims)
    \/ datGet0C \/ datGet1C \/ datGetVC

VSpec == VInit /\ [][VNext]_vvars

-----------------------------------------------------------------------------
(* Properties *)

\* Whether an object of type "type" can hold the value v of type "from".
Storable(type, v, from) ==
    IF from.name = "_LOGICAL" THEN v # BadL
    ELSE IF type.name = "_LOGICAL"
    THEN IF from.name = "_CHAR" THEN \E b \in {0, 1} : v = Padded(TextOf(b, "_LOGICAL"), from.len)
         ELSE v \in {0, 1}
    ELSE IF from.name = "_CHAR" /\ type.name = "_CHAR" THEN Len(Trimmed(v)) <= type.len
    ELSE IF type.name = "_CHAR" THEN Len(Decimal(v)) <= type.len
    ELSE IF from.name = "_CHAR"
    THEN \E n \in VRange(type.name) : v = Padded(Decimal(n), from.len) /\ Len(Decimal(n)) <= from.len
    ELSE v \in VRange(type.name)

\* What a program writes and reads back with the same type is what it wrote,
\* whatever the type of the object, as long as that type can hold the values
\* and no error is reported, and a text is not cut (datPut, datGet).
VRoundTrip ==
    vgot # Nothing /\ vstat = "OK" /\ vgot.type = vput.type
       /\ (\A i \in DOMAIN vput.values : Storable(vtype, vput.values[i], vput.type))
       /\ ~(vtype.name = "_CHAR" /\ vput.type.name = "_CHAR" /\ vput.type.len < vtype.len)
    => vgot.values = vput.values

\* The buffer that datGet1C and datGetVC get for the texts of values holds them,
\* for any values the object may have been given, as any type (datClen).  The
\* temporary one of datPut and datGet is run over only by texts that datPut makes
\* of numbers or logical values, into an object of shorter ones; never because a
\* logical value takes more bytes in memory than in the file (datLen).
VBufferHolds ==
    /\ voverrun # "own"
    /\ voverrun = "temporary" =>
          /\ vtype.name = "_CHAR"
          /\ \E i \in DOMAIN vput.values :
                Len(TextOf(vput.values[i], vput.type.name)) > vtype.len

\* A call that writes either stores all its values or reports an error and
\* leaves the object as it was; texts that were cut are the exception.  A call
\* that reads leaves it as it was, so that what was read last can be read again.
VAllOrNothing ==
    [][/\ vdata' # vdata => vdata' = Unwritten \/ vstat' \in {"OK", "TRUNC"}
       /\ vstat' \notin {"OK", "TRUNC"} => <<vtype, vdata, vput>>' = <<vtype, vdata, vput>>]_vvars
=============================================================================
