---------------------------- MODULE MCRegistry ----------------------------
(* Registry on one or two files and a few locators, with the requests to    *)
(* erase a file as history.                                                 *)
EXTENDS Registry, TLC

VARIABLE asked  \* Handles that hdsErase was called for since the file was opened

AskedInit == Init /\ asked = {}

AskedNext ==
    /\ Next
    /\ LET now == {at[l] : l \in {k \in alloc : HdsErase(k)}}
       IN asked' = {h \in asked \cup now : h.tree \in trees'}

AskedSpec == AskedInit /\ [][AskedNext]_<<vars, asked>>

\* hdsErase's request is kept until the file is closed, and honoured when the
\* last primary locator has the same Handle as the one hdsErase was given.  No
\* file is deleted that nobody asked to erase since it was opened last: the
\* flag does not outlive the Handles, whose memory is used again (hdsErase,
\* dat1Annul).
EraseHonoured ==
    [][\A l \in alloc :
          LET f == file[l] IN
          f \in open \ open' /\ prim[f] = <<l>> =>
              /\ at[l] \in asked => f \notin onDisk'
              /\ f \notin onDisk' => at[l] \in asked \/ HdsErase(l)]_<<vars, asked>>

Symmetric == Permutations(Loc) \cup Permutations(Tree)
=============================================================================
