----------------------------- MODULE MCCalls -----------------------------
(* The parts of HDS that share no state with one another, side by side.  A   *)
(* behaviour is one of a single part; the others stay as they are.           *)
EXTENDS Shapes, Fortran, Values, Opening, MCAlter, Tuning, MCNames, MCHandleLock

VARIABLE part

\* A scalar, a vector, and arrays of two and three axes.
SmallShapes == {<<>>, <<3>>, <<3, 2>>, <<2, 3>>, <<3, 3>>, <<1, 3>>, <<2, 3, 2>>}

\* On both sides of what a parameter accepts.
FewSettings == {-2, -1, 0, 1, 4}

\* Types of four, five and eight bits, one of each kind; numbers on both sides of their limits,
\* and texts that are none.
FewSpans == [t \in {"_UBYTE", "_WORD", "_REAL"} |->
               CASE t = "_UBYTE" -> 2 ^ 4 [] t = "_WORD" -> 2 ^ 5 [] t = "_REAL" -> 2 ^ 8]
ScalarOrPair == {<<>>, <<2>>}
FewNumbers == {-12, 5, 20}
FewTexts == {<<>>, <<"5">>, <<"2", "0">>}

\* The type of an object is found again from what HDF5 keeps of it, and datPrec
\* tells the bytes that a value takes in memory.
ASSUME \A t \in VType :
          /\ HdsType(H5Type(t, FALSE)) = t.name /\ HdsType(H5Type(t, TRUE)) = t.name
          /\ datPrec(t) = H5Type(t, TRUE).size

allVars == <<shapeVars, fvars, vvars, ovars, avars, tuneVars, nameVars, handleVars,
             part>>

\* A part that takes no step is in some state that it can begin in.
CallsInit ==
    /\ part \in {"shapes", "fortran", "values", "opening", "alter", "tuning", "names",
                "locks"}
    /\ IF part = "shapes" THEN ShapesInit
       ELSE /\ isstruct = FALSE /\ dims = <<>> /\ cell = 1
            /\ sloc = [space |-> WholeSpace(<<>>), vectorized |-> FALSE, iscell |-> FALSE,
                       isdiscont |-> FALSE]
            /\ want = <<>> :> 0 /\ exact = TRUE
    /\ IF part = "fortran" THEN FInit
       ELSE /\ fvar = [v \in FVar |-> NoLoc] /\ fstat = "ok" /\ fstale = {}
            /\ flive = {} /\ flinked = {} /\ flost = {} /\ fdropped = {}
    /\ IF part = "values" THEN VInit
       ELSE /\ vtype = T("_LOGICAL") /\ vshape = <<>> /\ vdata = Unwritten
            /\ vput = Nothing /\ vgot = Nothing /\ vstat = "OK" /\ voverrun = "none"
    /\ IF part = "alter" THEN AInit
       ELSE /\ sort = "primitive" /\ size = <<>> /\ values = Undefined /\ cells = <<>>
            /\ there = TRUE /\ leftover = {} /\ unwritten = FALSE /\ usable = TRUE /\ outcome = "OK"
    /\ IF part = "tuning" THEN TuneInit
       ELSE /\ param = "MAP" /\ environ = {} /\ tuned = 1 /\ initialized = FALSE
            /\ doing = [t \in Tuner |-> Away] /\ lastTuned = {} /\ begun = {} /\ stored = {}
    /\ IF part = "names" THEN NInit
       ELSE /\ place = [file |-> Flext, top |-> Scalar, bounds |-> <<>>, links |-> <<>>]
            /\ hdspath = <<>>
    /\ OInit /\ HandleInit

CallsNext ==
    \/ /\ part = "shapes" /\ ShapesNext
       /\ UNCHANGED <<fvars, vvars, ovars, avars, tuneVars, nameVars, handleVars, part>>
    \/ /\ part = "fortran" /\ FNext
       /\ UNCHANGED <<shapeVars, vvars, ovars, avars, tuneVars, nameVars, handleVars, part>>
    \/ /\ part = "values" /\ VNext
       /\ UNCHANGED <<shapeVars, fvars, ovars, avars, tuneVars, nameVars, handleVars, part>>
    \/ /\ part = "opening" /\ ONext
       /\ UNCHANGED <<shapeVars, fvars, vvars, avars, tuneVars, nameVars, handleVars, part>>
    \/ /\ part = "alter" /\ ANext
       /\ UNCHANGED <<shapeVars, fvars, vvars, ovars, tuneVars, nameVars, handleVars, part>>
    \/ /\ part = "tuning" /\ TuneNext
       /\ UNCHANGED <<shapeVars, fvars, vvars, ovars, avars, nameVars, handleVars, part>>
    \/ /\ part = "names" /\ NamesNext
       /\ UNCHANGED <<shapeVars, fvars, vvars, ovars, avars, tuneVars, handleVars, part>>
    \/ /\ part = "locks" /\ HandleNext
       /\ UNCHANGED <<shapeVars, fvars, vvars, ovars, avars, tuneVars, nameVars, part>>

\* The Handles of module HandleLock are symmetric.  To permute its threads and
\* names as well would cost the other parts more than it saves here.
SymmetricHandles == Permutations(Handle)

CallsSpec == CallsInit /\ [][CallsNext]_allVars
=============================================================================
