\* Any number of runs, each with up to three rows of one column.
SPECIFICATION Spec
CONSTANTS
    jan15 = jan15
    mar01 = mar01
    mar20 = mar20
    Columns = {c1}
    Contents = {f, g}
    Days <- March
    Text <- Written
    Calendar <- Sequence
    MaxRows = 3
SYMMETRY Interchangeable
INVARIANTS DictionaryAsPromised WithheldStaysOut OneRowPerKey RerunIsIdle
