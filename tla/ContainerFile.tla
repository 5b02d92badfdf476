--------------------------- MODULE ContainerFile ---------------------------
(***************************************************************************)
(* What the registry of locators promises about a container file: a file    *)
(* is open exactly as long as some locator owns it (a primary locator).      *)
(* Other locators (secondary) are guests: they may be made from a locator    *)
(* of an open file, and they all become invalid when its last owner leaves.  *)
(***************************************************************************)
EXTENDS FiniteSets

CONSTANTS File, Loc

VARIABLES
    isOpen,     \* the files that are open
    owners,     \* owners[f]: the primary locators of f
    guests      \* guests[f]: the secondary locators of f

vars == <<isOpen, owners, guests>>

Users(f) == owners[f] \cup guests[f]
InUse == UNION {Users(f) : f \in File}

Init ==
    /\ isOpen = {}
    /\ owners = [f \in File |-> {}]
    /\ guests = [f \in File |-> {}]

\* l becomes an owner of f, opening the file if it is not open yet.
Open(f, l) ==
    /\ l \notin InUse
    /\ isOpen' = isOpen \cup {f}
    /\ owners' = [owners EXCEPT ![f] = @ \cup {l}]
    /\ UNCHANGED guests

\* l becomes a guest of a file that is open.
Join(f, l) ==
    /\ f \in isOpen
    /\ l \notin InUse
    /\ guests' = [guests EXCEPT ![f] = @ \cup {l}]
    /\ UNCHANGED <<isOpen, owners>>

\* A guest becomes an owner.
Promote(f, l) ==
    /\ l \in guests[f]
    /\ guests' = [guests EXCEPT ![f] = @ \ {l}]
    /\ owners' = [owners EXCEPT ![f] = @ \cup {l}]
    /\ UNCHANGED isOpen

\* An owner becomes a guest; another owner stays.
Demote(f, l) ==
    /\ l \in owners[f] /\ owners[f] # {l}
    /\ owners' = [owners EXCEPT ![f] = @ \ {l}]
    /\ guests' = [guests EXCEPT ![f] = @ \cup {l}]
    /\ UNCHANGED isOpen

\* A locator leaves, and the file stays open.
Leave(f, l) ==
    /\ l \in Users(f) /\ owners[f] # {l}
    /\ owners' = [owners EXCEPT ![f] = @ \ {l}]
    /\ guests' = [guests EXCEPT ![f] = @ \ {l}]
    /\ UNCHANGED isOpen

\* The last owner leaves: the file is closed and its guests are sent away.
Close(f, l) ==
    /\ owners[f] = {l}
    /\ isOpen' = isOpen \ {f}
    /\ owners' = [owners EXCEPT ![f] = {}]
    /\ guests' = [guests EXCEPT ![f] = {}]

Next == \E f \in File, l \in Loc :
    \/ Open(f, l) \/ Join(f, l)
    \/ Promote(f, l) \/ Demote(f, l)
    \/ Leave(f, l) \/ Close(f, l)

Spec == Init /\ [][Next]_vars
=============================================================================
