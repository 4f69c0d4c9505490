CONSTANTS
    NullValue = NullValue
    Names = {"s", "c", "k", "v", "w"}
    Temps <- MCTemps
    DateNames = {}
    CounterNames = {}
    Endings <- MCEndings
    Entity = "T"
    Target = "s"
    Programs <- MCPrograms
    Rows <- MCRows
SPECIFICATION Spec
INVARIANTS
    PassesAreTheProgram
    HandlerAlone
    TempsKnowTheirHistory
CHECK_DEADLOCK FALSE
