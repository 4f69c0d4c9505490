CONSTANTS
    NullValue = NullValue
    Names = {"s", "c", "k", "v", "w"}
    Temps <- MCTemps
    DateNames = {}
    CounterNames = {}
    Endings <- MCEndings
    Entity = "T"
    Target = "s"
    Programs <- MCElseOnly
    Rows <- MCRows
SPECIFICATION Spec
INVARIANTS
    ElseArmsStayGuarded
CHECK_DEADLOCK FALSE
