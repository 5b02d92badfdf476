----------------------------- MODULE MCShapes -----------------------------
(* A scalar, a vector, and arrays of two and three axes. *)
EXTENDS Shapes

SmallShapes == {<<>>, <<3>>, <<3, 2>>, <<2, 3>>, <<3, 3>>, <<1, 3>>, <<2, 3, 2>>}
=============================================================================
