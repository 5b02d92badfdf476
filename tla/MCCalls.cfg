SPECIFICATION CallsSpec
CONSTANTS
    Shape <- SmallShapes
    MaxBound = 4
    FVar = {v1, v2, v3}
    FLoc = {l1, l2}
    Null = Null
    NoLoc = NoLoc
    Root = Root
    Blank = Blank
    Span <- FewSpans
    CharLen = {1, 2}
    VShape <- ScalarOrPair
    VNumbers <- FewNumbers
    VTexts <- FewTexts
    Opener = {t1, t2}
    OLoc = {1, 2, 3, 4}
    OTree = {1, 2, 3}
    NoOTree = 0
    MaxMade = 2
    AlterShape <- FewShapes
    Tuner = {p1, p2}
    TuneValue <- FewSettings
    NameSize = 4
    Spelling <- FewSpellings
    Components <- FewComponents
    TopText <- TopLetters
    TopKind <- EveryTop
    FileText <- FewFiles
    Numeral <- FewNumerals
    MaxDepth = 3
    Thread = {t1, t2}
    Handle = {h1, h2, h3}
    Name = {a, b}
    TopName = {f}
    NoThread = NoThread
    NoHandle = NoHandle
    NoName = NoName
    LockCheck = TRUE
SYMMETRY SymmetricHandles
INVARIANTS SelectionRight FHeldOnce VRoundTrip VBufferHolds HeldUsable TunedLasts
    LockStates TreeLinks TreeStatusSound NamesRight
    ReferenceReopens
PROPERTIES VAllOrNothing ReopenedShares AlteredRight AlteredSafely
    LostOnlyByUnlock ImplementsRWLock
