CONSTANTS
    NullValue = NullValue
    Names = {"a", "b", "due", "days", "month", "monthend"}
    DateNames = {"due"}
    CounterNames = {"days"}
    Endings <- MCEndings
    Target = "b"
    Phrases <- MCPhrases
SPECIFICATION Spec
INVARIANTS
    ReadsAsSql
    NeverMisread
CHECK_DEADLOCK FALSE
