SPECIFICATION AllStepsSpec
CONSTANTS
    top = top
    inner = inner
    Thread = {t1, t2}
    NoThread = NoThread
    Handle = {top, inner}
    Kids <- OneInside
    File = {f1, f2}
    Group = {g1, g2}
    Loc = {l1, l2, l3}
    NoFile = NoFile
    NoLoc = NoLoc
    NoGroup = NoGroup
    FlushCloses = FALSE
INVARIANTS ToldTrue GroupsAgree NothingFreed LiveInOpenFile FlushComplete
PROPERTIES CallsAreAtomic CallsProgress ImplementsContainerFile CallsReturn
CHECK_DEADLOCK FALSE
