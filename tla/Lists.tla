------------------------------- MODULE Lists -------------------------------
(* The linked lists and arrays of pointers that the library keeps.           *)
EXTENDS SequencesExt

\* Mutant: only an element at the head of its list is taken out.
Without_HeadOnly(s, l) == IF s # <<>> /\ s[1] = l THEN Tail(s) ELSE s

\* The list s without l, wherever it is.
Without(s, l) ==
    IF l \in ToSet(s) THEN RemoveAt(s, CHOOSE i \in DOMAIN s : s[i] = l) ELSE s
=============================================================================
