-------------------------- MODULE MCHandleLockSteps --------------------------
(* HandleLockSteps on an object with one component. *)
EXTENDS HandleLockSteps

CONSTANTS top, inner

OneInside == [h \in Handle |-> IF h = top THEN <<inner>> ELSE <<>>]
=============================================================================
