SPECIFICATION AskedSpec
CONSTANTS
    Loc = {l1, l2, l3, l4}
    Tree = {T1, T2}
    File = {f1, f2}
    NoFile = NoFile
    NoTree = NoTree
    NamedAsFile = {f1}
    Demotable = {f1}
SYMMETRY Symmetric
INVARIANTS ListsAgree NothingDangles OpenIffPrimary OneTreePerFile
PROPERTIES ImplementsContainerFile EraseHonoured
CHECK_DEADLOCK FALSE
