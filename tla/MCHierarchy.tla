----------------------------- MODULE MCHierarchy -----------------------------
(* Hierarchy with one file that was opened twice. *)
EXTENDS Hierarchy

OpenedTwice == [i \in FileId |-> 1]

\* How often each value of F occurs for the members of S.
Tally(S, F(_)) == [v \in {F(x) : x \in S} |-> Cardinality({x \in S : F(x) = v})]

ObjectSeen(o) == IF Linked(o) THEN Path(obj, o) ELSE <<>>
HandleSeen(h) == IF h \in DOMAIN handle THEN Path(handle, h) ELSE <<>>

\* A state without the numbers of objects, Handles and locators, which no
\* action but the choice of the next number depends on.  What an erased
\* object held is left out: a careful program cannot reach it, and only the
\* bound on the number of objects notices it.
Seen ==
    << Tally({o \in DOMAIN obj : Linked(o)}, LAMBDA o : <<Path(obj, o), obj[o].isStruct>>),
       Tally(DOMAIN handle, LAMBDA h : Path(handle, h)),
       Tally(DOMAIN locs, LAMBDA k : << ObjectSeen(locs[k].obj), HandleSeen(locs[k].handle),
                                       locs[k].fid, k \in FileId, k \in renamed >>) >>
=============================================================================
