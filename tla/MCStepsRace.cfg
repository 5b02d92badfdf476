SPECIFICATION StepsSpec
CONSTANTS
    top = top
    inner = inner
    Thread = {t1, t2}
    Handle = {top, inner}
    NoThread = NoThread
    Kids <- OneInside
INVARIANT ToldExclusive
