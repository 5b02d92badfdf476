----------------------------- MODULE MCClosing -----------------------------
(* Two threads, one or two files, one or two groups. *)
EXTENDS Closing, TLC

Symmetric == Permutations(Thread) \cup Permutations(Loc)
=============================================================================
