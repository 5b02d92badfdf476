------------------------------ MODULE Children ------------------------------
(***************************************************************************)
(* The children array of a Handle, in several threads at once.              *)
(*                                                                         *)
(* datFind needs a read-only lock on the object it looks in, which several   *)
(* threads can have.  Each looks through the array of the object's Handle    *)
(* for the component and, if it finds none, adds a Handle (dat1Handle).  No   *)
(* mutex is held.  datErase needs the read-write lock, so that no other      *)
(* thread is in the array then.                                             *)
(*                                                                         *)
(* The state is one array, and the calls that are at work on it.  That its   *)
(* memory moves when it is extended is left out.                            *)
(***************************************************************************)
EXTENDS Integers, FiniteSets

CONSTANTS
    Finder,      \* threads with a lock on the object
    Component,   \* the names of its components
    NoChild,     \* the NULL pointer
    Garbage,     \* what memory holds that was not written to
    MaxChild     \* bound: the Handles that can be allocated at a time

VARIABLES
    nchild,      \* parent->nchild
    children,    \* parent->children, in as much memory as it may need
    nameOf,      \* the names of the Handles
    checked,     \* the Handles that are complete: "check" is set
    allocated,   \* the Handles there are
    finding      \* finding[t]: a call of dat1Handle, or NotFinding

childVars == <<nchild, children, nameOf, checked, allocated, finding>>

Child == 1..MaxChild
NotFinding == [pc |-> "idle"]
Working(t) == finding[t].pc # "idle"
At(t, pc) == finding[t].pc = pc

\* The rest of a call of dat1Handle is to be done at pc, with one field changed.
Advance(t, call) == finding' = [finding EXCEPT ![t] = call]
Return(t) == Advance(t, NotFinding)

FindBegin(t) ==
    /\ ~Working(t)
    /\ \E n \in Component :
          Advance(t, [pc |-> "look", name |-> n, ichild |-> 1, unused |-> 0, child |-> NoChild])
    /\ UNCHANGED <<nchild, children, nameOf, checked, allocated>>

\* One turn of the loop over the array.  A child whose "check" is not set is
\* reported as invalid, and so may be what was never written to.
Look(t) ==
    LET call == finding[t]
        child == children[call.ichild]
        On == [call EXCEPT !.ichild = @ + 1]
    IN
    /\ At(t, "look")
    /\ IF call.ichild > nchild THEN Advance(t, [call EXCEPT !.pc = "make"])
       ELSE CASE child = Garbage -> Return(t) \/ Advance(t, [On EXCEPT !.unused = call.ichild])
              [] child = NoChild -> Advance(t, [On EXCEPT !.unused = call.ichild])
              [] child \in Child \ checked -> Return(t)
              [] child \in checked /\ nameOf[child] = call.name -> Return(t)
              [] OTHER -> Advance(t, On)
    /\ UNCHANGED <<nchild, children, nameOf, checked, allocated>>

\* A Handle is allocated.  If no slot is free the number of children is read...
Make(t) ==
    LET call == finding[t] IN
    /\ At(t, "make")
    /\ \E h \in Child \ allocated :
          /\ allocated' = allocated \cup {h}
          /\ IF call.unused # 0 THEN Advance(t, [call EXCEPT !.pc = "store", !.child = h])
             ELSE Advance(t, [call EXCEPT !.pc = "count", !.child = h, !.unused = nchild + 1])
    /\ UNCHANGED <<nchild, children, nameOf, checked>>

\* ... and written back, one larger.
Count(t) ==
    /\ At(t, "count")
    /\ nchild' = finding[t].unused
    /\ Advance(t, [finding[t] EXCEPT !.pc = "store"])
    /\ UNCHANGED <<children, nameOf, checked, allocated>>

Store(t) ==
    /\ At(t, "store")
    /\ children' = [children EXCEPT ![finding[t].unused] = finding[t].child]
    /\ Advance(t, [finding[t] EXCEPT !.pc = "fill"])
    /\ UNCHANGED <<nchild, nameOf, checked, allocated>>

\* The name and the other fields are set, and the Handle is returned.
Fill(t) ==
    /\ At(t, "fill")
    /\ nameOf' = [nameOf EXCEPT ![finding[t].child] = finding[t].name]
    /\ checked' = checked \cup {finding[t].child}
    /\ Return(t)
    /\ UNCHANGED <<nchild, children, allocated>>

\* dat1EraseHandle: the first child of that name is freed, and its slot emptied.
EraseChild ==
    /\ \A t \in Finder : ~Working(t)
    /\ \E i \in 1..nchild :
          /\ children[i] \in checked
          /\ \A j \in 1..(i - 1) : children[j] \in checked =>
                                      nameOf[children[j]] # nameOf[children[i]]
          /\ children' = [children EXCEPT ![i] = NoChild]
          /\ checked' = checked \ {children[i]}
          /\ allocated' = allocated \ {children[i]}
    /\ UNCHANGED <<nchild, nameOf, finding>>

ChildrenInit ==
    /\ nchild = 0
    /\ children = [i \in 1..MaxChild |-> Garbage]
    /\ nameOf = [h \in Child |-> Garbage]
    /\ checked = {} /\ allocated = {}
    /\ finding = [t \in Finder |-> NotFinding]

ChildrenNext ==
    \/ \E t \in Finder : \/ FindBegin(t) \/ Look(t) \/ Make(t) \/ Count(t)
                         \/ Store(t) \/ Fill(t)
    \/ EraseChild

ChildrenSpec == ChildrenInit /\ [][ChildrenNext]_childVars

-----------------------------------------------------------------------------
(* Properties *)

\* "Each HDF object that has been accessed by HDS will have one (and only one)
\* Handle structure associated with it": no two Handles are for one component
\* (dat1Handle).
OneChildEach ==
    \A h, k \in checked : nameOf[h] = nameOf[k] => h = k
=============================================================================
