------------------------------- MODULE RWLock -------------------------------
(***************************************************************************)
(* What the locks on HDS objects promise, independent of the Handle         *)
(* structures that record them: every object is unlocked, or locked for     *)
(* writing by exactly one thread, or locked for reading by some threads.    *)
(* A thread changes only its own locks.  An object that disappears takes    *)
(* its locks with it.                                                       *)
(***************************************************************************)
CONSTANTS Thread, Object

VARIABLES
    exists,    \* the objects that currently exist
    wr,        \* wr[o]: the threads holding a read-write lock on o
    rd         \* rd[o]: the threads holding a read-only lock on o

lockVars == <<exists, wr, rd>>

Free(S) == [o \in S |-> {}]

Init ==
    /\ exists = {}
    /\ wr = Free(Object)
    /\ rd = Free(Object)

\* t may have a read-only lock on o: nobody else writes.
MayRead(t, o) == wr[o] \subseteq {t}

\* t may have a read-write lock on o: nobody else has any lock.
MayWrite(t, o) == wr[o] \subseteq {t} /\ rd[o] \subseteq {t}

\* t takes read-only locks on the objects of S, giving up any write lock.
ReadLock(t, S) ==
    /\ \A o \in S : MayRead(t, o)
    /\ wr' = [o \in Object |-> IF o \in S THEN {} ELSE wr[o]]
    /\ rd' = [o \in Object |-> IF o \in S THEN rd[o] \cup {t} ELSE rd[o]]
    /\ UNCHANGED exists

\* t takes read-write locks on the objects of S, promoting any read lock.
WriteLock(t, S) ==
    /\ \A o \in S : MayWrite(t, o)
    /\ wr' = [o \in Object |-> IF o \in S THEN {t} ELSE wr[o]]
    /\ rd' = [o \in Object |-> IF o \in S THEN {} ELSE rd[o]]
    /\ UNCHANGED exists

\* t gives up whatever lock it has on the objects of S.
Release(t, S) ==
    /\ wr' = [o \in Object |-> IF o \in S THEN wr[o] \ {t} ELSE wr[o]]
    /\ rd' = [o \in Object |-> IF o \in S THEN rd[o] \ {t} ELSE rd[o]]
    /\ UNCHANGED exists

\* A new object appears, locked by the thread that made it known.
Create(t, o) ==
    /\ o \notin exists
    /\ exists' = exists \cup {o}
    /\ \/ wr' = [wr EXCEPT ![o] = {t}] /\ UNCHANGED rd
       \/ rd' = [rd EXCEPT ![o] = {t}] /\ UNCHANGED wr

\* The objects of S disappear, and all locks on them.
Destroy(S) ==
    /\ exists' = exists \ S
    /\ wr' = [o \in Object |-> IF o \in S THEN {} ELSE wr[o]]
    /\ rd' = [o \in Object |-> IF o \in S THEN {} ELSE rd[o]]

Next ==
    \/ \E t \in Thread, S \in SUBSET exists :
          ReadLock(t, S) \/ WriteLock(t, S) \/ Release(t, S)
    \/ \E t \in Thread, o \in Object : Create(t, o)
    \/ \E S \in SUBSET exists : Destroy(S)

Spec == Init /\ [][Next]_lockVars
=============================================================================
