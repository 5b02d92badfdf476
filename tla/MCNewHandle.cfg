SPECIFICATION AskedSpec
CONSTANTS
    Loc = {l1, l2, l3, l4}
    Tree = {T1, T2}
    File = {f1, f2}
    NoFile = NoFile
    NoTree = NoTree
    NamedAsFile = {f1}
    Demotable = {f1}
INVARIANT OneTopHandle
CHECK_DEADLOCK FALSE
