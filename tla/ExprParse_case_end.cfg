CONSTANTS
    NullValue = NullValue
    Names = {"a", "b", "due", "days", "month", "monthend"}
    DateNames = {"due"}
    CounterNames = {"days"}
    Endings <- MCEndings
    Target = "b"
    Phrases <- MCEndingNames
SPECIFICATION Spec
INVARIANT CaseStopsAtItsEnd
CHECK_DEADLOCK FALSE
