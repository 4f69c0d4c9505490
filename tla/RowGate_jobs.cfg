\* One object with two columns and two statements that may assign either or
\* both, or two objects that write the same column.
SPECIFICATION MCSpec
CONSTANTS
    NumObjects = 2
    Columns = {c1, c2}
    Names = {c1, c2}
    Writes = {w1, w2}
    Dates = {d1, d2}
SYMMETRY Interchangeable
INVARIANTS ActiveNeedsWholeObject ReadinessAgrees BlockersReachReport EveryWriteSurfaces
PROPERTIES VerdictsStand
CHECK_DEADLOCK FALSE
