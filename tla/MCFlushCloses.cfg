SPECIFICATION Spec
CONSTANTS
    Thread = {t1}
    File = {f1}
    Group = {g1}
    Loc = {l1, l2, l3}
    NoThread = NoThread
    NoFile = NoFile
    NoLoc = NoLoc
    NoGroup = NoGroup
    FlushCloses = TRUE
SYMMETRY Symmetric
INVARIANT NoSelfWait
CHECK_DEADLOCK FALSE
