---------------------------- MODULE StoredArray ----------------------------
(***************************************************************************)
(* What HDS promises of a primitive that several threads use: its elements  *)
(* are undefined or hold values, and only a thread that holds the           *)
(* read-write lock on the primitive can change them.  How the values travel *)
(* (a put, the buffer of a mapping that is copied back) is not visible.     *)
(***************************************************************************)
CONSTANTS Thread, Cell, Value, Unset

VARIABLES
    elements,   \* Unset, or the value of every element
    wr,         \* the threads holding the read-write lock
    rd          \* the threads holding a read-only lock

arrayVars == <<elements, wr, rd>>

Prim == "primitive"

Locks == INSTANCE RWLock
           WITH Object <- {Prim}, exists <- {Prim},
                wr <- [o \in {Prim} |-> wr], rd <- [o \in {Prim} |-> rd]

Init == elements \in [Cell -> Value] \cup {Unset} /\ wr = {} /\ rd = {}

\* t takes, promotes, demotes or gives up its lock.
ChangeLock(t) ==
    /\ \/ Locks!ReadLock(t, {Prim})
       \/ Locks!WriteLock(t, {Prim})
       \/ Locks!Release(t, {Prim})
    /\ UNCHANGED elements

\* t, which holds the read-write lock, stores values in some elements; an
\* array that was undefined becomes defined everywhere.
Write(t) ==
    /\ wr = {t}
    /\ elements' \in [Cell -> Value]
    /\ UNCHANGED <<wr, rd>>

\* t, which holds the read-write lock, makes the array undefined.
Clear(t) ==
    /\ wr = {t}
    /\ elements' = Unset
    /\ UNCHANGED <<wr, rd>>

Next == \E t \in Thread : ChangeLock(t) \/ Write(t) \/ Clear(t)

Spec == Init /\ [][Next]_arrayVars
=============================================================================
