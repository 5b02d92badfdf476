SPECIFICATION ShapesSpec
CONSTANTS
    Shape <- SmallShapes
    MaxBound = 4
INVARIANT DiscontFlagged
