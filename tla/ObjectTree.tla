------------------------------ MODULE ObjectTree ------------------------------
(***************************************************************************)
(* What the object functions promise: a tree of named components, each a    *)
(* structure or a primitive, that is changed one subtree at a time.  A      *)
(* component is known by its path, a container file first and then names.   *)
(***************************************************************************)
EXTENDS SequencesExt

CONSTANTS Root,   \* the top-level objects
          Name    \* the names of components

VARIABLE isStruct   \* for each path that leads to an object: is it a structure?

\* In a tree t, the paths of the object at p and of everything in it.
Within(t, p) == {q \in DOMAIN t : IsPrefix(p, q)}

\* The path q with its beginning, the path p, replaced.
Rebased(q, p, new) == new \o SubSeq(q, Len(p) + 1, Len(q))

\* The object at p and everything in it, as they look from the path "new".
Seen(t, p, new) ==
    [r \in {Rebased(q, p, new) : q \in Within(t, p)} |-> t[Rebased(r, new, p)]]

\* The tree t with what u has more.
Joined(t, u) == [q \in DOMAIN t \cup DOMAIN u |-> IF q \in DOMAIN t THEN t[q] ELSE u[q]]

\* The tree t after one component was created, deleted, or copied or moved with
\* all that is in it.
CreatedAt(t, new, s) == Joined(t, [q \in {new} |-> s])
Without(t, p) == Restrict(t, DOMAIN t \ Within(t, p))
CopiedTo(t, p, new) == Joined(t, Seen(t, p, new))
MovedTo(t, p, new) == Joined(Without(t, p), Seen(t, p, new))

\* Paths that a new component can be given, and those that are not in p.
Vacant(t) == {Append(p, n) : p \in {q \in DOMAIN t : t[q]}, n \in Name} \ DOMAIN t
Outside(t, p) == {new \in Vacant(t) : ~IsPrefix(p, new)}

Components(t) == {q \in DOMAIN t : Len(q) > 1}

\* The trees that one call can make of t.
After(t) ==
    {CreatedAt(t, new, s) : new \in Vacant(t), s \in BOOLEAN}
    \cup {Without(t, p) : p \in Components(t)}
    \cup (UNION {{CopiedTo(t, p, new) : new \in Outside(t, p)} : p \in DOMAIN t})
    \cup (UNION {{MovedTo(t, p, new) : new \in Outside(t, p)} : p \in Components(t)})

Init == isStruct = [p \in {<<r>> : r \in Root} |-> TRUE]

Next == isStruct' \in After(isStruct)

Spec == Init /\ [][Next]_isStruct
=============================================================================
