\* Three statements over two predicates; a value and NULL.
SPECIFICATION Spec
CONSTANTS
    Values = {A, Null}
    Null = Null
    Preds = {p, q}
    Guards <- MCGuards
    MaxPasses = 3
INVARIANTS PlainPassesExact FaithfulFoldsExact
CHECK_DEADLOCK FALSE
