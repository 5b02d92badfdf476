---------------------------- MODULE MCHandleLock ----------------------------
(* HandleLock on two or three threads and a few Handles. *)
EXTENDS HandleLock, TLC

SymmetricLocks == Permutations(Thread) \cup Permutations(Handle) \cup Permutations(Name)
=============================================================================
