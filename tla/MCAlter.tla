------------------------------ MODULE MCAlter ------------------------------
(* Alter on arrays of a few elements. *)
EXTENDS Alter

\* What an array is altered to: up to three axes, of up to three elements.
FewShapes == {<<>>, <<1>>, <<2>>, <<3>>, <<1, 1>>, <<1, 2>>, <<2, 1>>, <<2, 2>>, <<2, 3>>,
              <<3, 2>>, <<1, 2, 1>>, <<2, 1, 2>>, <<2, 2, 1>>, <<2, 2, 2>>}
=============================================================================
