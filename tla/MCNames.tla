------------------------------- MODULE MCNames -------------------------------
(* A few names of objects and files, with what each can do to a text. *)
EXTENDS Names, TLC

\* In small letters, with blanks, blank, not printable; of four characters and
\* a few more.
FewSpellings == {<<"A">>, <<"a">>, <<"B">>, <<" ", "a", "b">>, <<"B", "A">>, <<" ">>, <<"A", "?">>,
                 <<"A", "B", "A", "B", "A">>, <<"A", "A", "A", "A", "A", "A">>}

\* Structures and primitives, scalars and arrays, and a name that is too long.
FewComponents ==
    <<"A">> :> Scalar @@ <<"B">> :> [isstruct |-> TRUE, dims |-> <<2>>]
    @@ <<"B", "A">> :> [isstruct |-> TRUE, dims |-> <<2, 1>>]
    @@ <<"A", "B">> :> [isstruct |-> FALSE, dims |-> <<2, 2>>]
    @@ <<"A", "B", "A", "B", "A">> :> [isstruct |-> FALSE, dims |-> <<>>]

EveryTop == [isstruct : BOOLEAN, dims : {<<>>, <<2>>}]
FewNumerals == [n \in 1..2 |-> ToString(n)]
TopLetters == <<"T", "O", "P">>

\* With no dot, with one or two, with dots in a directory, with nothing before
\* the dot, blank, with a blank before .sdf, and with something for the shell.
FewFiles == {<<>>, <<" ">>, <<"a">>, <<"a", ".", "sdf">>, <<"a", ".", "b">>, <<"a", ".">>,
             <<"a", ".", "b", ".", "sdf">>, <<"d", ".", "c", "/", "a", " ">>,
             <<"d", "/", ".", "sdf">>, <<"a", " ", ".", "sdf">>, <<"a", ".", "$">>, <<"$">>, <<"$", " ", "a">>}
=============================================================================
