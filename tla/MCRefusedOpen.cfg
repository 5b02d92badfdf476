SPECIFICATION HandleSpec
CONSTANTS
    Thread = {t1, t2}
    Handle = {h1, h2, h3}
    Name = {a, b}
    TopName = {f}
    NoThread = NoThread
    NoHandle = NoHandle
    NoName = NoName
    LockCheck = TRUE
SYMMETRY SymmetricLocks
PROPERTY RefusedOpenIgnored
