SPECIFICATION Spec
CONSTANTS
    NullValue = NullValue
    Sources <- MCSources
    Own = "s"
    Rows <- MCRows
    Caps = {12, 250}
INVARIANTS
    AssignmentsAreExact
    TotalsAreExact
    AlwaysPrints
    NothingToFlatten
    Fits
PROPERTIES
    PassesKeepValue
    CompilerPrintsWhatItGets
CHECK_DEADLOCK FALSE
