SPECIFICATION HierarchySpec
CONSTANTS
    FileId = {1, 2}
    RootOf <- OpenedTwice
    MaxObject = 5
    MaxHandle = 4
    MaxLoc = 4
    MaxName = 2
    Careful = FALSE
INVARIANT OneHandleEach
