SPECIFICATION ChildrenSpec
CONSTANTS
    Finder = {t1, t2}
    Component = {a, b}
    NoChild = NoChild
    Garbage = Garbage
    MaxChild = 4
INVARIANT OneChildEach
