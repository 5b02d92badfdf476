SPECIFICATION ObjectsSpec
CONSTANTS
    FileId = {1, 2}
    RootOf <- OpenedTwice
    MaxObject = 5
    MaxHandle = 4
    MaxLoc = 4
    MaxName = 2
    Careful = TRUE
    Thread = {t1, t2}
    Loc = {l1, l2}
    Cell = {1, 2}
    Value = {0, 1}
    Zero = 0
    Unset = Unset
    NoThread = NoThread
    MaxDataset = 2
SYMMETRY Symmetric
VIEW PartSeen
INVARIANTS ValidIffLinked OneHandleEach ReadMappingCurrent
PROPERTIES ImplementsObjectTree MovesAndCopies KeptMappingStored ImplementsStoredArray
