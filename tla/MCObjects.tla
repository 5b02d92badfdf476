------------------------------ MODULE MCObjects ------------------------------
(* Module Hierarchy with one file that was opened twice, and next to it       *)
(* module Mapping with two threads, two locators and an array of two          *)
(* elements.  A behaviour is one of one of the two; the other stays as it is. *)
EXTENDS MCHierarchy, Mapping, TLC

VARIABLE part

objectsVars == <<hierarchyVars, vars, part>>

ObjectsInit ==
    /\ part \in {"hierarchy", "mapping"}
    /\ IF part = "mapping" THEN Init
       ELSE /\ intent = "RDONLY" /\ linked = 1 /\ data = [i \in Dataset |-> Unset]
            /\ wr = {} /\ rd = {}
            /\ loc = [l \in Loc |-> Annulled] /\ since = [l \in Loc |-> NoThread]
    /\ IF part = "hierarchy" THEN HierarchyInit
       ELSE /\ obj = [r \in Root |-> [up |-> None, name |-> None, isStruct |-> TRUE]]
            /\ handle = <<>> /\ locs = <<>> /\ renamed = {}

ObjectsNext ==
    \/ part = "hierarchy" /\ HierarchyNext /\ UNCHANGED <<vars, part>>
    \/ part = "mapping" /\ Next /\ UNCHANGED <<hierarchyVars, part>>

ObjectsSpec == ObjectsInit /\ [][ObjectsNext]_objectsVars

\* What one of the threads or locators of module Mapping does, so does another.
Symmetric == Permutations(Thread) \cup Permutations(Loc)

\* Module Hierarchy by its paths, the other variables as they are.
PartSeen == IF part = "hierarchy" THEN <<Seen>> ELSE vars
=============================================================================
